---- MODULE Spec2Model ----
(***************************************************************************)
(* Flash-loan arbitrage: the settlement engine FlashLoanArbitrageV3.sol    *)
(* and the scan loop of engine/index.js.                                   *)
(*                                                                         *)
(* Spec      the settlement engine on the ledger: one transaction at a     *)
(*           time, every external call (loan pool, swap venue) a step of   *)
(*           its own, a revert restoring the state the transaction began   *)
(*           in.                                                           *)
(* SpecLoop  main() and scan() of engine/index.js with executor.execute:   *)
(*           every await a step, the interval timer free to fire between.  *)
(* SpecMatch the matcher of engine/scanner.js (the loops and the sort of   *)
(*           findArbitrageOpportunities) applied to a list of quotes.      *)
(* SpecScan  one call of findArbitrageOpportunities: the venue queries     *)
(*           resolve in any order, then the quotes are gathered and        *)
(*           matched.                                                      *)
(* SpecPlan  one pair of the scan loop in detail: the opportunities, the   *)
(*           plan built from the best one, and the requests execute makes. *)
(* SpecRelay one call of sendBundle or simulate of engine/flashbots.js.     *)
(* SpecFn    the planner's pure functions on drawn inputs: the plan        *)
(*           encoded by executor.js and decoded by the engine, and the     *)
(*           loan amount of index.js with tokenDecimals of config.js.      *)
(***************************************************************************)
EXTENDS Integers, Sequences, FiniteSets, TLC

\* ------------------------------------------------------------------ bounds
MaxCalls   == 2   \* top-level transactions sent to the engine
MaxAmount  == 1   \* largest loan amount requested
MaxPremium == 1   \* largest premium the pool charges
MaxOut     == 2   \* largest output a venue realizes
MaxMin     == 1   \* largest amountOutMin of a plan
MaxDex     == 4   \* venue-type codes 0..MaxDex (uint8 in the contract)
MaxScans   == 3   \* invocations of scan (SpecLoop)
MaxQuotes     == 3      \* quotes in a list handed to the matcher (SpecMatch)
PriceBase     == 10000  \* lowest non-zero price of a quote (SpecMatch)
PriceStep     == 10     \* distance between two neighbouring prices
MaxPriceSteps == 2      \* prices PriceBase + k * PriceStep, k in 0..MaxPriceSteps
ThresholdStep == 5      \* thresholds are -1, 0 and multiples of ThresholdStep
MaxThresholdSteps == 5  \* the largest threshold is ThresholdStep * this
ScaleDigits   == 1      \* SCALE = 10^ScaleDigits (10^18 in scanner.js)
SqrtFracBits  == 2      \* fraction bits of sqrtPriceX96 (96 in scanner.js)
MaxSqrtPrice  == 3      \* largest sqrtPriceX96 a pool reports (SpecScan)
MaxLiquidity  == 1      \* the non-zero liquidity a pool reports
MaxReserve    == 2      \* largest reserve a pair reports
IntBits       == 3      \* width the model keeps of an int128
MaxGasEstimate == 4     \* largest gas estimate the node returns (SpecPlan)
MaxAdminCalls == 3   \* transactions sent to the owner's functions
MaxInner      == 1      \* calls running venues make into the owner's functions
MaxBlock      == 17     \* largest target block of a bundle (SpecRelay)

\* --------------------------------------------------------------- addresses
ZeroAddress == "0x0"
Engine      == "engine"            \* address(this)
Owner       == "owner"             \* the deployer, Ownable's first owner
Stranger    == "stranger"
Pool        == "POOL"
UniRouter   == "uniswapV3Router"
SushiRouter == "sushiswapRouter"
CurvePool   == "curvePool"
NewRouter   == "newRouter"         \* a router the owner may switch to

Tokens       == {"tokenA", "tokenB"}
BorrowAssets == {"tokenA"}
IntermediateTokens == Tokens \ BorrowAssets
Spenders     == {Pool, UniRouter, SushiRouter, NewRouter, CurvePool}
\* accounts that can be msg.sender of a call into the engine
Callers      == {Owner, Stranger, UniRouter}
\* accounts that send transactions to the owner's functions, or are called
\* by a venue and call them
Accounts     == {Owner, Stranger}

DEX_UNISWAP_V3 == 1
DEX_SUSHISWAP  == 2
DEX_CURVE      == 3

NOT_ENTERED == "NOT_ENTERED"
ENTERED     == "ENTERED"

VARIABLES
  balance,     \* [Tokens -> Nat]: IERC20(t).balanceOf(address(this))
  allowance,   \* [Tokens -> [Spenders -> Nat]]: IERC20(t).allowance(this, s)
  events,      \* the log of the current (or last) transaction, in order
  status,      \* ReentrancyGuard._status
  phase,       \* where the current (or last) settlement sequence stands
  frame,       \* memory of the running call: arguments and locals
  venue,       \* 0, or the leg (1, 2) whose external venue call is running
  nested,      \* what became of a call made into the engine by the venue
  pre,         \* balances and storage when the transaction began, empty log
  reason,      \* the error the last transaction reverted with, or <<>>
  venueError,  \* why a venue call of this transaction failed: leg and cause
  call,        \* the last top-level call: <<function, msg.sender, initiator>>
  calls        \* number of top-level transactions so far

chainVars == <<balance, allowance, events, status, phase, frame, venue, nested,
               pre, reason, venueError, call, calls>>

\* the scan loop of engine/index.js (specification SpecLoop)
VARIABLES
  tradeLive,   \* TRADE_LIVE
  scanCount,   \* scanCount
  timerArmed,  \* setInterval(scan, SCAN_INTERVAL_MS) has been called
  scans,       \* the invocations of scan: where each one stands
  logged       \* what the last step wrote with console.error, if anything

loopVars == <<tradeLive, scanCount, timerArmed, scans, logged>>

\* one call of PoolScanner.findArbitrageOpportunities (SpecMatch, SpecScan)
VARIABLES
  pairCfg,        \* tokenA as passed by the caller and the pools' token0
  tierOutcome,    \* per fee tier: what became of its query
  results,        \* `results` of scanUniswapV3Pools, in the order of the pushes
  sushi,          \* what became of scanSushiswapPair, and its quote
  allPools,       \* allPools
  minProfitBps,   \* minProfitBps
  opportunities,  \* the list findArbitrageOpportunities returned
  rerun,          \* the list a second run on the same allPools returned
  findPc          \* where the call stands

scannerVars == <<pairCfg, tierOutcome, results, sushi, allPools, minProfitBps,
                 opportunities, rerun, findPc>>

\* the planner's pure functions applied to drawn inputs (SpecFn)
VARIABLES
  fnParams,    \* params of encodeArbParams
  fnWords,     \* the bytes encodeArbParams returned, as 32-byte words
  fnDecoded,   \* abi.decode(params, (ArbParams)) of those bytes
  fnAddress,   \* address of tokenDecimals
  fnUsd,       \* LOAN_AMOUNT_USD
  fnLoan,      \* loanAmount of index.js line 129
  fnPc         \* which function has been applied

fnVars == <<fnParams, fnWords, fnDecoded, fnAddress, fnUsd, fnLoan, fnPc>>

\* one pair of the scan loop in detail (SpecPlan)
VARIABLES
  env,           \* process.env: TRADE_LIVE, CHAIN, PRIVATE_KEY, LOAN_AMOUNT_USD
  executor,      \* executor of main(): "null" or "ArbExecutor"
  flashbots,     \* flashbots of main(): "null" or "FlashbotsProvider"
  pairTokens,    \* <<tokenA, tokenB>> of the iteration
  opps,          \* opps
  arbParamsObj,  \* arbParamsObj
  loanAmount,    \* loanAmount
  estimate,      \* what executeArbitrage.estimateGas returned, 0 before
  requests,      \* the requests execute has made, in order
  planLogged,    \* which catch of the iteration has logged
  planPc         \* where the iteration stands

planVars == <<env, executor, flashbots, pairTokens, opps, arbParamsObj,
              loanAmount, estimate, requests, planLogged, planPc>>

\* one call of FlashbotsProvider.sendBundle or .simulate (SpecRelay)
VARIABLES
  relayCall,      \* the method called and its arguments
  relayRequests,  \* the requests posted to FLASHBOTS_RPC, in order
  relayResponse,  \* the HTTP response fetch resolved with, if any
  relayResult,    \* what the call returned or threw
  relayPc         \* where the call stands

relayVars == <<relayCall, relayRequests, relayResponse, relayResult, relayPc>>

\* the engine's storage and the owner's functions (SpecAdmin)
VARIABLES
  deployed,         \* the constructor has returned
  uniswapV3Router,  \* uniswapV3Router
  sushiswapRouter,  \* sushiswapRouter
  held,             \* [Accounts -> [Tokens -> Nat]]: IERC20(t).balanceOf(a)
  owner,            \* Ownable._owner
  inner             \* the calls running venues have made into the owner's
                    \* functions: their number, and the last one the venue
                    \* now running has made, <<function, msg.sender, argument>>

\* the storage of the engine and of the tokens that a revert restores, besides
\* balance, allowance and status
storageVars == <<uniswapV3Router, sushiswapRouter, held, owner>>

adminVars == <<deployed, storageVars, inner>>

\* the specifications further down
laterVars == <<fnVars, planVars, relayVars, adminVars>>

\* what the settlement engine's steps leave alone
offChainVars == <<loopVars, scannerVars, fnVars, planVars, relayVars, deployed>>

vars == <<chainVars, loopVars, scannerVars, laterVars>>

\* ------------------------------------------------------------ plan (ArbParams)
\* fee1, fee2, curveI*, curveJ* are handed to the venue unchanged and decide
\* nothing in the engine; the venue's answer is drawn in VenueReturn.
ArbParams ==
  { a \in [ wellFormed : BOOLEAN,
            dex1 : 0..MaxDex, dex2 : 0..MaxDex,
            tokenIntermediate : IntermediateTokens,
            curvePool1 : {ZeroAddress, CurvePool},
            curvePool2 : {ZeroAddress, CurvePool},
            amountOutMin1 : 0..MaxMin, amountOutMin2 : 0..MaxMin ] :
      /\ (a.dex1 # DEX_CURVE => a.curvePool1 = ZeroAddress)
      /\ (a.dex2 # DEX_CURVE => a.curvePool2 = ZeroAddress)
      /\ (~a.wellFormed =>
            /\ a.dex1 = 0 /\ a.dex2 = 0
            /\ a.amountOutMin1 = 0 /\ a.amountOutMin2 = 0
            /\ a.tokenIntermediate = "tokenB") }

\* the plan carried by calls that are rejected before the plan is read
ForeignPlans ==
  { a \in ArbParams :
      /\ a.wellFormed
      /\ a.dex1 = DEX_UNISWAP_V3 /\ a.dex2 = DEX_SUSHISWAP
      /\ a.amountOutMin1 = 0 /\ a.amountOutMin2 = 0 }

NoArb == [ wellFormed |-> FALSE, dex1 |-> 0, dex2 |-> 0,
           tokenIntermediate |-> "tokenB",
           curvePool1 |-> ZeroAddress, curvePool2 |-> ZeroAddress,
           amountOutMin1 |-> 0, amountOutMin2 |-> 0 ]

NoFrame == [ msgSender |-> ZeroAddress, initiator |-> ZeroAddress,
             starter |-> ZeroAddress, asset |-> "tokenA",
             amountBorrowed |-> 0, premium |-> 0, arb |-> NoArb,
             intermediateReceived |-> -1, finalReceived |-> -1,
             balanceRead |-> -1, spender |-> ZeroAddress,
             pulled |-> FALSE, paid |-> -1 ]

Running == frame # NoFrame

\* no call: <<function, msg.sender, argument>> when none has been made
NoCall == <<"none", ZeroAddress, ZeroAddress>>

\* the state a transaction that begins now reverts to; its log starts empty
Snapshot == [ balance |-> balance, allowance |-> allowance,
              events |-> <<>>, status |-> status,
              uniswapV3Router |-> uniswapV3Router,
              sushiswapRouter |-> sushiswapRouter,
              held |-> held, owner |-> owner ]

\* ------------------------------------------------------------------ events
FlashLoanInitiated(asset, amount) ==
  [ name |-> "FlashLoanInitiated", asset |-> asset, amount |-> amount, profit |-> 0 ]
ArbExecuted(tokenBorrow, amountBorrowed, profit) ==
  [ name |-> "ArbExecuted", asset |-> tokenBorrow, amount |-> amountBorrowed,
    profit |-> profit ]

\* ------------------------------------------------------------------ guards
onlyOwner(sender) == sender = owner

\* mutant: executeArbitrage without the nonReentrant modifier
nonReentrantMissing(st) == TRUE

nonReentrant(st) == st # ENTERED

\* mutant: executeOperation without the check of the initiator
OperationAuthorizedNoInitiator(msgSender, initiator) == msgSender = Pool

\* executeOperation's two checks of its caller
OperationAuthorized(msgSender, initiator) ==
  /\ msgSender = Pool
  /\ initiator = Engine

\* SafeERC20.safeApprove: a non-zero allowance may only be set from zero
SafeApproveOK(token, spender, value) ==
  \/ value = 0
  \/ allowance[token][spender] = 0

\* the venue's side of amountOutMinimum / amountOutMin / min_dy
VenueHonours(out, amountOutMin) == out >= amountOutMin

\* mutant: the SushiSwap branch as a plain else, taking every other code
VenueKindDefaultSushi(dex) ==
  IF dex = DEX_UNISWAP_V3 THEN "uniswapV3"
  ELSE IF dex = DEX_CURVE THEN "curve"
  ELSE "sushiswap"

\* _swap's if / else if chain over the venue-type code
VenueKind(dex) ==
  IF dex = DEX_UNISWAP_V3 THEN "uniswapV3"
  ELSE IF dex = DEX_SUSHISWAP THEN "sushiswap"
  ELSE IF dex = DEX_CURVE THEN "curve"
  ELSE "unsupported"

\* the spender _swap approves and calls: the router stored for the venue type
\* at the time of the swap (lines 316, 334), or the plan's pool (348)
SwapSpender(kind, curvePool) ==
  IF kind = "uniswapV3" THEN uniswapV3Router
  ELSE IF kind = "sushiswap" THEN sushiswapRouter
  ELSE curvePool

\* ------------------------------------------------------------------ revert
\* mutant: the failure is swallowed, what the transaction did so far stays
AbortKeepingEffects(snap, why) ==
  /\ phase'     = "Aborted"
  /\ reason'    = why
  /\ frame'     = NoFrame
  /\ venue'     = 0
  /\ nested'    = "none"
  /\ inner'     = [inner EXCEPT !.call = NoCall]
  /\ UNCHANGED <<balance, allowance, events, status, storageVars>>

\* A revert that reaches the top of the transaction: storage, balances and
\* logs are those of `snap`, the memory of the call is gone.
Abort(snap, why) ==
  /\ balance'   = snap.balance
  /\ allowance' = snap.allowance
  /\ events'    = snap.events
  /\ status'    = snap.status
  /\ uniswapV3Router' = snap.uniswapV3Router
  /\ sushiswapRouter' = snap.sushiswapRouter
  /\ held'      = snap.held
  /\ owner'     = snap.owner
  /\ phase'     = "Aborted"
  /\ reason'    = why
  /\ frame'     = NoFrame
  /\ venue'     = 0
  /\ nested'    = "none"
  /\ inner'     = [inner EXCEPT !.call = NoCall]

NoVenueError == [ leg |-> 0, cause |-> "none" ]

\* ---------------------------------------------------------------- Init
InitChain ==
  /\ balance   = [t \in Tokens |-> 0]
  /\ allowance = [t \in Tokens |-> [s \in Spenders |-> 0]]
  /\ events    = <<>>
  /\ status    = NOT_ENTERED
  /\ phase     = "Idle"
  /\ frame     = NoFrame
  /\ venue     = 0
  /\ nested    = "none"
  /\ pre       = Snapshot
  /\ reason    = <<>>
  /\ venueError = NoVenueError
  /\ call      = <<"none", ZeroAddress, ZeroAddress>>
  /\ calls     = 0

\* ------------------------------------------------- executeArbitrage (213-239)
\* mutant: the event is emitted after POOL.flashLoan has returned
LogBeforeLoanEmpty(asset, amount) == <<>>

\* line 228: the log of the transaction when POOL.flashLoan is called
LogBeforeLoan(asset, amount) == <<FlashLoanInitiated(asset, amount)>>

\* onlyOwner, nonReentrant, the amount check, the event, then POOL.flashLoan.
ExecuteArbitrage(sender, asset, amount, arbParams) ==
  /\ ~Running
  /\ calls < MaxCalls
  /\ calls' = calls + 1
  /\ pre'   = Snapshot
  /\ call'  = <<"executeArbitrage", sender, ZeroAddress>>
  /\ venueError' = NoVenueError
  /\ UNCHANGED offChainVars
  /\ IF ~onlyOwner(sender)
       THEN Abort(Snapshot, <<"OwnableUnauthorizedAccount">>)
     ELSE IF ~nonReentrant(status)
       THEN Abort(Snapshot, <<"ReentrancyGuardReentrantCall">>)
     ELSE IF amount = 0
       THEN Abort(Snapshot, <<"InvalidAmount">>)
     ELSE
       /\ status' = ENTERED
       /\ events' = LogBeforeLoan(asset, amount)
       /\ phase'  = "Initiated"
       /\ frame'  = [ NoFrame EXCEPT !.starter = sender, !.asset = asset,
                                     !.amountBorrowed = amount, !.arb = arbParams ]
       /\ reason' = <<>>
       /\ UNCHANGED <<balance, allowance, venue, nested, storageVars, inner>>

\* ------------------------------------------------- executeOperation (247-261)
\* Entry of the callback, the loan `amount` already credited in `bal`.
\* `snap` is the state a revert returns to, `log` the transaction's log so far.
EnterOperation(snap, log, bal, msgSender, initiator, starter, asset, amount, premium, arbParams) ==
  IF ~OperationAuthorized(msgSender, initiator)
    THEN Abort(snap, <<"Unauthorized">>)
  ELSE IF ~arbParams.wellFormed
    THEN Abort(snap, <<"DecodeError">>)
  ELSE
    /\ balance' = bal
    /\ phase'   = "Advanced"
    /\ frame'   = [ NoFrame EXCEPT !.msgSender = msgSender, !.initiator = initiator,
                                   !.starter = starter, !.asset = asset,
                                   !.amountBorrowed = amount, !.premium = premium,
                                   !.arb = arbParams ]
    /\ events'  = log
    /\ reason'  = <<>>
    /\ UNCHANGED <<allowance, status, venue, nested, storageVars, inner>>

\* POOL.flashLoan, called by the engine: the pool transfers the amount to the
\* receiver and calls executeOperation with initiator = the caller of flashLoan.
FlashLoanAdvance(premium) ==
  /\ Running /\ phase = "Initiated"
  /\ EnterOperation(pre, events,
                    [balance EXCEPT ![frame.asset] = @ + frame.amountBorrowed],
                    Pool, Engine, frame.starter, frame.asset,
                    frame.amountBorrowed, premium, frame.arb)
  /\ UNCHANGED <<pre, venueError, call, calls, offChainVars>>

\* the pool refuses the loan (no liquidity, asset not listed)
FlashLoanRefused ==
  /\ Running /\ phase = "Initiated"
  /\ Abort(pre, <<"PoolReverted">>)
  /\ UNCHANGED <<pre, venueError, call, calls, offChainVars>>

\* A transaction that calls executeOperation directly.
DirectExecuteOperation(sender, initiator, asset, amount, premium, arbParams) ==
  /\ ~Running
  /\ calls < MaxCalls
  /\ calls' = calls + 1
  /\ pre'   = Snapshot
  /\ call'  = <<"executeOperation", sender, initiator>>
  /\ venueError' = NoVenueError
  /\ UNCHANGED offChainVars
  /\ EnterOperation(Snapshot, <<>>, balance, sender, initiator, ZeroAddress,
                    asset, amount, premium, arbParams)

\* A transaction in which another account calls POOL.flashLoan with the engine
\* as receiver: the pool is msg.sender, that account is the initiator.
ForeignFlashLoan(caller, asset, amount, premium, arbParams) ==
  /\ ~Running
  /\ calls < MaxCalls
  /\ calls' = calls + 1
  /\ pre'   = Snapshot
  /\ call'  = <<"executeOperation", Pool, caller>>
  /\ venueError' = NoVenueError
  /\ UNCHANGED offChainVars
  /\ EnterOperation(Snapshot, <<>>, [balance EXCEPT ![asset] = @ + amount],
                    Pool, caller, ZeroAddress, asset, amount, premium, arbParams)

\* ------------------------------------------------------ the two legs (263-287)
\* the arguments executeOperation hands to _swap for each leg
Leg1Args ==
  [ dex |-> frame.arb.dex1, tokenIn |-> frame.asset,
    tokenOut |-> frame.arb.tokenIntermediate,
    amountIn |-> frame.amountBorrowed,
    amountOutMin |-> frame.arb.amountOutMin1,
    curvePool |-> frame.arb.curvePool1 ]

\* mutant: leg 2 is given the minimum of leg 1
Leg2ArgsMin1 ==
  [ dex |-> frame.arb.dex2, tokenIn |-> frame.arb.tokenIntermediate,
    tokenOut |-> frame.asset,
    amountIn |-> frame.intermediateReceived,
    amountOutMin |-> frame.arb.amountOutMin1,
    curvePool |-> frame.arb.curvePool2 ]

Leg2Args ==
  [ dex |-> frame.arb.dex2, tokenIn |-> frame.arb.tokenIntermediate,
    tokenOut |-> frame.asset,
    amountIn |-> frame.intermediateReceived,
    amountOutMin |-> frame.arb.amountOutMin2,
    curvePool |-> frame.arb.curvePool2 ]

LegArgs(leg) == IF leg = 1 THEN Leg1Args ELSE Leg2Args

\* mutant: the two _swap calls in the other order
LegFromSwapped(leg) == IF leg = 1 THEN "Leg1Swapped" ELSE "Advanced"

\* the phase a leg starts from and the phase its return leads to
LegFrom(leg) == IF leg = 1 THEN "Advanced" ELSE "Leg1Swapped"
LegTo(leg)   == IF leg = 1 THEN "Leg1Swapped" ELSE "Leg2Swapped"

\* ------------------------------------------------------------ _swap (304-361)
\* Dispatch on the venue-type code; approve the venue; call it.
SwapCall(leg) ==
  /\ Running /\ phase = LegFrom(leg) /\ venue = 0
  /\ LET a  == LegArgs(leg)
         sp == SwapSpender(VenueKind(a.dex), a.curvePool)
     IN IF VenueKind(a.dex) = "unsupported"
          THEN Abort(pre, <<"SwapFailed", a.dex>>)
        ELSE IF VenueKind(a.dex) = "curve" /\ a.curvePool = ZeroAddress
          THEN Abort(pre, <<"ZeroAddress">>)
        ELSE IF ~SafeApproveOK(a.tokenIn, sp, a.amountIn)
          THEN Abort(pre, <<"SafeERC20FailedOperation">>)
        ELSE
          /\ allowance' = [allowance EXCEPT ![a.tokenIn][sp] = a.amountIn]
          /\ frame' = [frame EXCEPT !.spender = sp]
          /\ venue' = leg
          /\ UNCHANGED <<balance, events, status, phase, nested, reason, storageVars,
                         inner>>
  /\ UNCHANGED <<pre, venueError, call, calls, offChainVars>>

\* Between the external call of _swap (317 / 338 / 352) and its return the
\* venue, the spender _swap approved, takes amountIn with transferFrom, pays
\* the output and may call into the engine, in the order of its own code.
\* frame.pulled and frame.paid tell what the running venue has done so far.
\* The venue takes amountIn; without the balance its transferFrom reverts and
\* the venue's call with it (VenueReverts).
VenuePull ==
  /\ Running /\ venue \in {1, 2} /\ ~frame.pulled
  /\ balance[LegArgs(venue).tokenIn] >= LegArgs(venue).amountIn
  /\ balance' = [balance EXCEPT ![LegArgs(venue).tokenIn] = @ - LegArgs(venue).amountIn]
  /\ allowance' = [allowance EXCEPT ![LegArgs(venue).tokenIn][frame.spender] =
                                       @ - LegArgs(venue).amountIn]
  /\ frame' = [frame EXCEPT !.pulled = TRUE]
  /\ UNCHANGED <<events, status, phase, venue, nested, reason, pre, venueError,
                 call, calls, storageVars, inner, offChainVars>>

\* the venue pays the output `out` to the engine
VenuePay(out) ==
  /\ Running /\ venue \in {1, 2} /\ frame.paid = -1
  /\ balance' = [balance EXCEPT ![LegArgs(venue).tokenOut] = @ + out]
  /\ frame' = [frame EXCEPT !.paid = out]
  /\ UNCHANGED <<allowance, events, status, phase, venue, nested, reason, pre,
                 venueError, call, calls, storageVars, inner, offChainVars>>

\* The venue answers: it realizes `out`, reverts when that is below the minimum
\* it was given (caught: SwapFailed), and otherwise returns `out`, having
\* taken amountIn and paid `out`, now if not before. Its transferFrom
\* reverts, and the venue's call with it, when the engine no longer holds
\* amountIn.
VenueReturn(out) ==
  /\ Running /\ venue \in {1, 2}
  /\ frame.paid \in {-1, out}
  /\ LET a  == LegArgs(venue)
         sp == frame.spender
         toPull == IF frame.pulled THEN 0 ELSE LegArgs(venue).amountIn
         toPay  == IF frame.paid = -1 THEN out ELSE 0
     IN IF ~VenueHonours(out, a.amountOutMin)
          THEN /\ Abort(pre, <<"SwapFailed", a.dex>>)
               /\ venueError' = [ leg |-> venue, cause |-> "TooLittleReceived" ]
        ELSE IF balance[a.tokenIn] < toPull
          THEN /\ Abort(pre, <<"SwapFailed", a.dex>>)
               /\ venueError' = [ leg |-> venue, cause |-> "Reverted" ]
        ELSE
          /\ balance' = [balance EXCEPT ![a.tokenIn]  = @ - toPull,
                                        ![a.tokenOut] = @ + toPay]
          /\ allowance' = [allowance EXCEPT ![a.tokenIn][sp] = @ - toPull]
          /\ frame' = IF venue = 1
                        THEN [frame EXCEPT !.intermediateReceived = out,
                                           !.pulled = FALSE, !.paid = -1]
                        ELSE [frame EXCEPT !.finalReceived = out,
                                           !.pulled = FALSE, !.paid = -1]
          /\ phase' = LegTo(venue)
          /\ venue' = 0
          /\ nested' = "none"
          /\ inner'  = [inner EXCEPT !.call = NoCall]
          /\ UNCHANGED <<events, status, reason, venueError, storageVars>>
  /\ UNCHANGED <<pre, call, calls, offChainVars>>

\* The venue call reverts for a reason of its own: catch, revert SwapFailed(dex).
VenueReverts ==
  /\ Running /\ venue \in {1, 2}
  /\ Abort(pre, <<"SwapFailed", LegArgs(venue).dex>>)
  /\ venueError' = [ leg |-> venue, cause |-> "Reverted" ]
  /\ UNCHANGED <<pre, call, calls, offChainVars>>

\* --------------------------------------------------------- repay (289-299)
AmountOwed == frame.amountBorrowed + frame.premium

\* mutant: the comparison off by one
CoversOffByOne(bal, owed) == ~(bal + 1 < owed)

\* line 291: the balance is enough to repay
Covers(bal, owed) == ~(bal < owed)

\* line 290-292: read the balance, compare with what is owed
RepaymentCheck ==
  /\ Running /\ phase = "Leg2Swapped"
  /\ LET bal == balance[frame.asset]
     IN IF ~Covers(bal, AmountOwed)
          THEN Abort(pre, <<"InsufficientBalance", AmountOwed, bal>>)
        ELSE
          /\ frame' = [frame EXCEPT !.balanceRead = bal]
          /\ phase' = "RepaymentVerified"
          /\ UNCHANGED <<balance, allowance, events, status, venue, nested, reason,
                         storageVars, inner>>
  /\ UNCHANGED <<pre, venueError, call, calls, offChainVars>>

\* mutant: the profit reported is what the second leg returned over the debt
ProfitOfLeg2(bal, owed) == frame.finalReceived - owed

\* line 294-299: approve the pool, emit ArbExecuted, return true
Profit(bal, owed) == bal - owed

Settle ==
  /\ Running /\ phase = "RepaymentVerified"
  /\ IF ~SafeApproveOK(frame.asset, Pool, AmountOwed)
       THEN Abort(pre, <<"SafeERC20FailedOperation">>)
     ELSE
       /\ allowance' = [allowance EXCEPT ![frame.asset][Pool] = AmountOwed]
       /\ events' = Append(events,
                      ArbExecuted(frame.asset, frame.amountBorrowed,
                                  Profit(frame.balanceRead, AmountOwed)))
       /\ phase' = "Settled"
       /\ UNCHANGED <<balance, status, frame, venue, nested, reason, storageVars,
                      inner>>
  /\ UNCHANGED <<pre, venueError, call, calls, offChainVars>>

\* mutant: the guard's status is left as it was when the call returns
nonReentrantAfterStuck == ENTERED

\* what the nonReentrant modifier of line 217 stores when the call returns
nonReentrantAfter == NOT_ENTERED

\* The pool pulls amount + premium from the receiver, flashLoan returns,
\* executeArbitrage returns and nonReentrant releases the lock.
PoolCollect ==
  /\ Running /\ phase = "Settled"
  /\ balance' = [balance EXCEPT ![frame.asset] = @ - AmountOwed]
  /\ allowance' = [allowance EXCEPT ![frame.asset][Pool] = @ - AmountOwed]
  /\ status' = nonReentrantAfter
  /\ frame' = NoFrame
  /\ UNCHANGED <<events, phase, venue, nested, reason, pre, venueError, call, calls,
                 storageVars, inner, offChainVars>>

\* ------------------------------------------- calls made by a running venue
\* While the engine waits for a venue, the venue (or a contract it calls) may
\* call back into the engine. `nested` records whether the call was rejected
\* or a second settlement sequence began.
ReenterExecuteArbitrage(sender, amount) ==
  /\ Running /\ venue \in {1, 2}
  /\ nested' = IF onlyOwner(sender) /\ nonReentrant(status) /\ amount # 0
                 THEN "begun" ELSE "rejected"
  /\ UNCHANGED <<balance, allowance, events, status, phase, frame, venue,
                 pre, reason, venueError, call, calls, storageVars, inner, offChainVars>>

\* the venue calls POOL.flashLoan with the engine as receiver
ReenterFlashLoan(caller) ==
  /\ Running /\ venue \in {1, 2}
  /\ nested' = IF OperationAuthorized(Pool, caller) THEN "begun" ELSE "rejected"
  /\ UNCHANGED <<balance, allowance, events, status, phase, frame, venue,
                 pre, reason, venueError, call, calls, storageVars, inner, offChainVars>>

\* the venue calls executeOperation itself, with an initiator of its choice
ReenterExecuteOperation(sender, initiator) ==
  /\ Running /\ venue \in {1, 2}
  /\ nested' = IF OperationAuthorized(sender, initiator) THEN "begun" ELSE "rejected"
  /\ UNCHANGED <<balance, allowance, events, status, phase, frame, venue,
                 pre, reason, venueError, call, calls, storageVars, inner, offChainVars>>

\* ====================================================== engine/index.js
\* main() and scan(): an invocation of scan runs until its next await; what it
\* awaits (a quote fetch, a step of executor.execute) resolves later, and the
\* interval timer may fire in between.
NumPairs == 5            \* MONITOR_PAIRS.length
ScanIds  == 1..MaxScans

\* estimates, sends: the gas estimates and executeArbitrage sends made so far
\* by executor.execute for the opportunity of the current pair
NotStarted == [ pc |-> "unstarted", pair |-> 0, estimates |-> 0, sends |-> 0 ]
AtQuotes(pair) == [ pc |-> "quotes", pair |-> pair, estimates |-> 0, sends |-> 0 ]

Started  == { i \in ScanIds : scans[i].pc # "unstarted" }
InFlight == { i \in ScanIds : scans[i].pc \notin {"unstarted", "done"} }
\* invocations inside executor.execute (estimate, fee data, send, receipt)
ExecutePcs == {"estimateGas", "getFeeData", "send", "wait"}
Executing  == { i \in ScanIds : scans[i].pc \in ExecutePcs }

NoLog == [ scan |-> 0, pair |-> 0, kind |-> "none", at |-> "none" ]
\* console.error of line 138 ("scanner") or of line 134 ("executor")
ErrorLog(i, kind) ==
  [ scan |-> i, pair |-> scans[i].pair, kind |-> kind, at |-> scans[i].pc ]

InitLoopIdle ==
  /\ tradeLive  = FALSE
  /\ scanCount  = 0
  /\ timerArmed = FALSE
  /\ scans      = [i \in {} |-> NotStarted]
  /\ logged     = NoLog

InitLoop ==
  /\ tradeLive  \in BOOLEAN
  /\ scanCount  = 0
  /\ timerArmed = FALSE
  /\ scans      = [i \in ScanIds |-> NotStarted]
  /\ logged     = NoLog

\* scan(), lines 88-94: count the scan, take the first pair, await its quotes
BeginScan(i) ==
  /\ scanCount' = scanCount + 1
  /\ scans' = [scans EXCEPT ![i] = AtQuotes(1)]
  /\ logged' = NoLog

\* main(), line 148: await scan()
MainScan ==
  /\ Started = {}
  /\ BeginScan(1)
  /\ UNCHANGED <<tradeLive, timerArmed, chainVars, scannerVars, laterVars>>

\* the interval timer of line 149 fires and calls scan
TimerFire ==
  /\ timerArmed
  /\ Cardinality(Started) < MaxScans
  /\ BeginScan(Cardinality(Started) + 1)
  /\ UNCHANGED <<tradeLive, timerArmed, chainVars, scannerVars, laterVars>>

\* the for loop of line 92 moves on: the next pair, or the end of scan, after
\* which main (awaiting the first scan) calls setInterval
AfterPair(i) ==
  IF scans[i].pair < NumPairs
    THEN /\ scans' = [scans EXCEPT ![i] = AtQuotes(@.pair + 1)]
         /\ UNCHANGED timerArmed
    ELSE /\ scans' = [scans EXCEPT ![i] = [@ EXCEPT !.pc = "done", !.estimates = 0,
                                                    !.sends = 0]]
         /\ timerArmed' = (timerArmed \/ i = 1)

\* mutant: an error ends the cycle
AfterErrorEndsCycle(i) ==
  /\ scans' = [scans EXCEPT ![i] = [@ EXCEPT !.pc = "done", !.estimates = 0,
                                             !.sends = 0]]
  /\ timerArmed' = (timerArmed \/ i = 1)

\* lines 137-139: the catch of the pair's try logs and the loop moves on
AfterError(i) == AfterPair(i)

\* mutant: execute is called again after a failure, once
AfterExecuteErrorRetries(i) ==
  IF scans[i].estimates < 2
    THEN /\ scans' = [scans EXCEPT ![i] = [@ EXCEPT !.pc = "estimateGas",
                                                    !.estimates = @ + 1]]
         /\ UNCHANGED timerArmed
    ELSE AfterPair(i)

\* lines 133-135: the catch around executor.execute logs; nothing follows it
\* in the pair's try, so the loop moves on
AfterExecuteError(i) == AfterPair(i)

\* findArbitrageOpportunities resolves or rejects (lines 94-132):
\*   "throws"      it rejects
\*   "empty"       no opportunity
\*   "found"       opps[0] is taken; in live mode the plan is built and
\*                 executor.execute is called, which encodes the plan and
\*                 asks for the gas estimate
\*   "planThrows"  opps[0] is taken and building the plan or the loan amount
\*                 throws (tokenDecimals, parseUnits)
QuoteOutcomes == {"throws", "empty", "found", "planThrows"}

QuotesReturn(i, outcome) ==
  /\ scans[i].pc = "quotes"
  /\ IF outcome = "throws" \/ (outcome = "planThrows" /\ tradeLive)
       THEN /\ logged' = ErrorLog(i, "scanner")
            /\ AfterError(i)
     ELSE IF outcome = "found" /\ tradeLive
       THEN /\ scans' = [scans EXCEPT ![i] = [@ EXCEPT !.pc = "estimateGas",
                                                       !.estimates = @ + 1]]
            /\ logged' = NoLog
            /\ UNCHANGED timerArmed
     ELSE /\ logged' = NoLog
          /\ AfterPair(i)
  /\ UNCHANGED <<tradeLive, scanCount, chainVars, scannerVars, laterVars>>

\* executor.execute, executor.js 59-83: each await resolves or throws; a throw
\* is caught at index.js 133 and the loop moves on
ExecuteNext(pc) ==
  IF pc = "estimateGas" THEN "getFeeData"
  ELSE IF pc = "getFeeData" THEN "send"
  ELSE "wait"

ExecuteStep(i, ok) ==
  /\ scans[i].pc \in ExecutePcs
  /\ IF ~ok
       THEN /\ logged' = ErrorLog(i, "executor")
            /\ AfterExecuteError(i)
     ELSE IF scans[i].pc # "wait"
       THEN /\ scans' = [scans EXCEPT ![i] =
                           [@ EXCEPT !.pc = ExecuteNext(@),
                                     !.sends = IF ExecuteNext(scans[i].pc) = "send"
                                                 THEN @ + 1 ELSE @]]
            /\ logged' = NoLog
            /\ UNCHANGED timerArmed
     ELSE /\ logged' = NoLog
          /\ AfterPair(i)
  /\ UNCHANGED <<tradeLive, scanCount, chainVars, scannerVars, laterVars>>

\* ===================================================== engine/scanner.js
\* The price of a quote is kept as the scaled integer the scanner computes
\* (priceScaled, below 2^31 here); the price the code keeps is the double
\* Number(priceScaled) / 1e18 of lines 86 and 119, PriceDouble below.
\* Different scaled integers give different doubles, in the same order, and
\* only 0 gives 0, so the comparisons of prices are those of the integers.
FeeTiers == <<500, 3000, 10000>>

V3Quote(fee, price, liquidity) ==
  [ source |-> "uniswapV3", fee |-> fee, price |-> price, liquidity |-> liquidity ]
SushiQuote(price) == [ source |-> "sushiswap", price |-> price ]

Abs(x) == IF x < 0 THEN -x ELSE x
Min(x, y) == IF x < y THEN x ELSE y

BPS == 10000

\* Math.round(n / d) for n >= 0, d > 0: the nearest integer, a half rounds up
RoundDiv(n, d) == (n \div d) + (IF (n % d) >= d - (n % d) THEN 1 ELSE 0)

\* ------------------------------------------------ IEEE 754 double arithmetic
\* A double has 53 significant bits, more than the integers of the checker
\* hold: a natural number below 2^135 is kept as nine limbs of 15 bits, the
\* least significant first.
Limb == 2 ^ 15
Limbs == 1..9

BigOf(n) ==
  [ i \in Limbs |-> IF i = 1 THEN n % Limb
                    ELSE IF i = 2 THEN (n \div Limb) % Limb
                    ELSE IF i = 3 THEN n \div (Limb * Limb)
                    ELSE 0 ]

\* the value of a number below 2^31
BigValue(a) == a[1] + (Limb * a[2]) + (Limb * Limb * a[3])

RECURSIVE Carry(_, _, _)
Carry(v, i, c) ==
  IF i > 9 THEN <<>>
  ELSE <<(v[i] + c) % Limb>> \o Carry(v, i + 1, (v[i] + c) \div Limb)

BigAdd(a, b)   == Carry([ i \in Limbs |-> a[i] + b[i] ], 1, 0)
BigSub(a, b)   == Carry([ i \in Limbs |-> a[i] - b[i] ], 1, 0)
BigTimes(a, k) == Carry([ i \in Limbs |-> a[i] * k ], 1, 0)
BigLess(a, b)  ==
  \E i \in Limbs : a[i] < b[i] /\ \A j \in (i + 1)..9 : a[j] = b[j]

BigShiftLeft(a, s) ==
  BigTimes([ i \in Limbs |-> IF i > (s \div 15) THEN a[i - (s \div 15)] ELSE 0 ],
           2 ^ (s % 15))

BigShiftRight(a, s) ==
  LET at(i) == IF i <= 9 THEN a[i] ELSE 0
  IN [ i \in Limbs |->
         (at(i + (s \div 15)) \div (2 ^ (s % 15)))
           + (at(i + (s \div 15) + 1) % (2 ^ (s % 15))) * (2 ^ (15 - (s % 15))) ]

\* the number of bits of a non-zero number, and its bit i (the lowest is 0)
BigBits(a) ==
  LET top == CHOOSE i \in Limbs : a[i] # 0 /\ \A j \in (i + 1)..9 : a[j] = 0
  IN 15 * (top - 1) + (CHOOSE j \in 1..15 : (2 ^ (j - 1)) <= a[top] /\ a[top] < (2 ^ j))
BigBit(a, i) == (a[(i \div 15) + 1] \div (2 ^ (i % 15))) % 2

\* long division: bits hi down to lo of the quotient of st[2] by q, st being
\* <<quotient so far, remainder>>; the upper half of the bits is settled, its
\* remainder being below q * 2^mid, before the lower half is begun
DivBit(st, t, i) ==
  IF BigLess(st[2], t) THEN st
  ELSE << [st[1] EXCEPT ![(i \div 15) + 1] = @ + (2 ^ (i % 15))], BigSub(st[2], t) >>

RECURSIVE DivBits(_, _, _, _)
DivLower(upper, q, mid, lo) ==
  IF BigLess(upper[2], BigShiftLeft(q, mid)) THEN DivBits(upper, q, mid - 1, lo)
  ELSE upper

DivBits(st, q, hi, lo) ==
  IF hi = lo THEN DivBit(st, BigShiftLeft(q, hi), hi)
  ELSE DivLower(DivBits(st, q, hi, (hi + lo + 1) \div 2), q, (hi + lo + 1) \div 2, lo)

\* A positive double is m * 2^e with 2^52 <= m < 2^53, and 0 has m = 0.
\* m of 53 or 54 bits is brought to 53 bits
Normal(m, e) ==
  IF BigBit(m, 53) = 1 THEN [ m |-> BigShiftRight(m, 1), e |-> e + 1 ]
  ELSE [ m |-> m, e |-> e ]

\* round to nearest, ties to even: m0 is followed by the dropped bits low, of
\* which half is the highest, and sticky says that more follows them
RoundEven(m0, low, half, sticky, e) ==
  Normal(IF low > half \/ (low = half /\ (sticky \/ (m0[1] % 2) = 1))
           THEN BigAdd(m0, BigOf(1)) ELSE m0,
         e)

\* the quotient dm[1] of 54 or 55 bits with remainder dm[2], as a double
RoundBits(dm, drop, e) ==
  RoundEven(BigShiftRight(dm[1], drop), dm[1][1] % (2 ^ drop), 2 ^ (drop - 1),
            dm[2] # BigOf(0), e + drop)

RoundQuotient(dm, e) == RoundBits(dm, IF BigBit(dm[1], 54) = 1 THEN 2 ELSE 1, e)

\* s is the shift that gives the quotient 54 or 55 bits
NearestShifted(p, q, x, s) ==
  IF s >= 0 THEN RoundQuotient(DivBits(<<BigOf(0), BigShiftLeft(p, s)>>, q, 54, 0), x - s)
  ELSE RoundQuotient(DivBits(<<BigOf(0), p>>, BigShiftLeft(q, -s), 54, 0), x - s)

\* the double nearest to p / q * 2^x
Nearest(p, q, x) ==
  IF p = BigOf(0) THEN [ m |-> p, e |-> 0 ]
  ELSE NearestShifted(p, q, x, 54 - (BigBits(p) - BigBits(q)))

\* x - y for doubles x >= y > 0, x / y, and x * k for a natural number k
DoubleMinus(x, y) == Nearest(BigSub(BigShiftLeft(x.m, x.e - y.e), y.m), BigOf(1), y.e)
DoubleDiv(x, y)   == Nearest(x.m, y.m, x.e - y.e)
DoubleTimes(x, k) == Nearest(BigTimes(x.m, k), BigOf(1), x.e)

\* lines 86 and 119: Number(priceScaled) / 1e18, priceScaled > 0
PriceDouble(priceScaled) ==
  Nearest(BigOf(priceScaled),
          BigTimes(BigTimes(BigTimes(BigTimes(BigOf(10000), 10000), 10000), 10000), 100),
          0)

\* Math.round(x) for a double x = m * 2^e below 2^31: floor(x + 1/2), exactly
MathRound(x) ==
  BigValue(BigShiftRight(BigAdd(BigShiftLeft(x.m, 1), BigShiftLeft(BigOf(1), -x.e)),
                         1 - x.e))

\* lines 153-154 in the doubles of the code, for the prices hi > lo > 0:
\* spread = (hi - lo) / lo, the subtraction and the division each rounded to
\* a double, and Math.round(spread * 10000), the product rounded to a double
\* before Math.round
SpreadBps(hi, lo) == MathRound(DoubleTimes(DoubleDiv(DoubleMinus(hi, lo), lo), BPS))

\* lines 153-154 for quotes of non-zero price. With n and d the difference
\* and the smaller of the scaled integers, the three roundings and those of
\* the two prices move spread * 10000 by less than 1 / (2 * d) from
\* n * 10000 / d, so the result is the rounding of the exact ratio unless that
\* ratio is an integer and a half, and the doubles are followed in that case
\* only.
ProfitBps(a, b) ==
  LET n == Abs(a.price - b.price)
      d == Min(a.price, b.price)
  IN IF d % 2 = 0 /\ (n * BPS) % d = d \div 2
       THEN SpreadBps(PriceDouble(d + n), PriceDouble(d))
       ELSE RoundDiv(n * BPS, d)

\* mutant: a pair at the threshold is discarded too
BelowOrAtThreshold(profitBps, threshold) == profitBps <= threshold

\* line 155: the test that discards a pair
BelowThreshold(profitBps, threshold) == profitBps < threshold

\* lines 157-160: the opportunity pushed for quotes a = allPools[i], b = allPools[j]
PairOpportunity(a, b, i, j) ==
  [ buy  |-> IF a.price < b.price THEN a ELSE b,
    sell |-> IF a.price < b.price THEN b ELSE a,
    spread |-> <<Abs(a.price - b.price), Min(a.price, b.price)>>,
    profitBps |-> ProfitBps(a, b),
    pair |-> <<i, j>> ]

\* lines 147-162: the two loops, from (i, j) on, in the order of the pushes
RECURSIVE Candidates(_, _, _, _)
Candidates(pools, threshold, i, j) ==
  IF i > Len(pools) THEN <<>>
  ELSE IF j > Len(pools) THEN Candidates(pools, threshold, i + 1, i + 2)
  ELSE IF pools[i].price = 0 \/ pools[j].price = 0
    THEN Candidates(pools, threshold, i, j + 1)
  ELSE IF BelowThreshold(ProfitBps(pools[i], pools[j]), threshold)
    THEN Candidates(pools, threshold, i, j + 1)
  ELSE <<PairOpportunity(pools[i], pools[j], i, j)>>
         \o Candidates(pools, threshold, i, j + 1)

\* mutant: an opportunity is placed before those of equal profitBps
RECURSIVE InsertDescBeforeTies(_, _)
InsertDescBeforeTies(sorted, x) ==
  IF sorted = <<>> THEN <<x>>
  ELSE IF Head(sorted).profitBps > x.profitBps
    THEN <<Head(sorted)>> \o InsertDescBeforeTies(Tail(sorted), x)
  ELSE <<x>> \o sorted

\* x placed into a list sorted by profitBps descending, after its equals
RECURSIVE InsertDesc(_, _)
InsertDesc(sorted, x) ==
  IF sorted = <<>> THEN <<x>>
  ELSE IF Head(sorted).profitBps >= x.profitBps
    THEN <<Head(sorted)>> \o InsertDesc(Tail(sorted), x)
  ELSE <<x>> \o sorted

\* line 164: Array.prototype.sort with (x, y) => y.profitBps - x.profitBps,
\* a stable sort
RECURSIVE SortByProfitDesc(_)
SortByProfitDesc(list) ==
  IF list = <<>> THEN <<>>
  ELSE InsertDesc(SortByProfitDesc(SubSeq(list, 1, Len(list) - 1)),
                  list[Len(list)])

\* lines 145-164
MatchQuotes(pools, threshold) ==
  SortByProfitDesc(Candidates(pools, threshold, 1, 2))

Prices == {0} \cup { PriceBase + PriceStep * k : k \in 0..MaxPriceSteps }
Thresholds == {-1, 0} \cup { ThresholdStep * k : k \in 1..MaxThresholdSteps }

\* An address is a 20-byte value in one of the spellings of its hex string:
\* all lower case, or the mixed-case checksum spelling ethers returns.
Address(id, form) == [ id |-> id, form |-> form ]
NoAddress == Address("none", "lower")

\* String.prototype.toLowerCase on an address string
ToLowerCase(addr) == [addr EXCEPT !.form = "lower"]

NoPairCfg == [ tokenA |-> NoAddress, token0 |-> NoAddress ]
NoSushi   == [ outcome |-> "idle", reserve0 |-> 0, reserve1 |-> 0, price |-> 0 ]

\* no call of findArbitrageOpportunities is under way
InitScannerIdle ==
  /\ pairCfg = NoPairCfg
  /\ tierOutcome = <<>>
  /\ results = <<>>
  /\ sushi = NoSushi
  /\ allPools = <<>>
  /\ minProfitBps = 0
  /\ opportunities = <<>>
  /\ rerun = <<>>
  /\ findPc = "idle"

\* SpecMatch: allPools as line 142-143 leaves it: up to three Uniswap V3
\* quotes, then the SushiSwap quote if there is one
\* The prices are those of Prices, or 288 and 783 in a list of two quotes: the
\* spread of that pair is exactly 17187.5 basis points.
InitMatch ==
  /\ pairCfg = NoPairCfg
  /\ tierOutcome = <<>>
  /\ results = <<>>
  /\ sushi = NoSushi
  /\ \E n \in 0..MaxQuotes, hasSushi \in BOOLEAN :
       /\ hasSushi => n >= 1
       /\ n - (IF hasSushi THEN 1 ELSE 0) <= Len(FeeTiers)
       /\ \E ps \in [1..n -> Prices] \cup { two \in [1..n -> {288, 783}] : n = 2 } :
            allPools = [ i \in 1..n |->
                           IF hasSushi /\ i = n
                             THEN SushiQuote(ps[i])
                             ELSE V3Quote(FeeTiers[i], ps[i], 1) ]
  /\ minProfitBps = 0
  /\ opportunities = <<>>
  /\ rerun = <<>>
  /\ findPc = "matching"

\* lines 145-164 on the quotes of allPools
Match(threshold) ==
  /\ findPc = "matching"
  /\ minProfitBps' = threshold
  /\ opportunities' = MatchQuotes(allPools, threshold)
  /\ findPc' = "returned"
  /\ UNCHANGED <<pairCfg, tierOutcome, results, sushi, allPools, rerun,
                 chainVars, loopVars, laterVars>>

\* the matcher run once more on the same quotes with the same threshold
Rematch ==
  /\ findPc = "returned"
  /\ rerun' = MatchQuotes(allPools, minProfitBps)
  /\ findPc' = "rerun"
  /\ UNCHANGED <<pairCfg, tierOutcome, results, sushi, allPools, minProfitBps,
                 opportunities, chainVars, loopVars, laterVars>>

\* ------------------------------------------ the venue queries (57-125)
SCALE == 10 ^ ScaleDigits
Q192  == 2 ^ (2 * SqrtFracBits)

\* mutant: the addresses compared as they are spelled
SameAddressExact(x, y) == x = y

\* lines 82 and 116: t0.toLowerCase() === tokenA.toLowerCase()
SameAddress(x, y) == ToLowerCase(x) = ToLowerCase(y)

\* mutant: no try/catch around a venue query
VenueErrorNotCaught == FALSE

\* lines 63, 90-92 and 104, 122-124: a throw inside a venue query is caught
VenueErrorCaught == TRUE

\* What the ledger answers to the queries of one fee tier: getPool returns the
\* zero address, one of the four calls throws, or all of them answer.
TierStatuses ==
  {"ok", "noPool", "getPoolThrows", "slot0Throws", "liquidityThrows", "token0Throws"}
TierAnswers ==
  { a \in [ status : TierStatuses, liquidity : {0, MaxLiquidity},
            sqrtPriceX96 : 0..MaxSqrtPrice ] :
      /\ (a.status # "ok" => a.liquidity = 0 /\ a.sqrtPriceX96 = 0)
      /\ (a.liquidity > 0 => a.sqrtPriceX96 > 0) }

SushiStatuses ==
  {"ok", "noFactory", "noPair", "getPairThrows", "getReservesThrows", "token0Throws"}
SushiAnswers ==
  { a \in [ status : SushiStatuses, reserve0 : 0..MaxReserve,
            reserve1 : 0..MaxReserve ] :
      a.status # "ok" => a.reserve0 = 0 /\ a.reserve1 = 0 }

Pending == [ kind |-> "pending", sqrtPriceX96 |-> 0 ]
TierOmitted(kind) == [ kind |-> kind, sqrtPriceX96 |-> 0, price |-> 0, liquidity |-> 0 ]

\* lines 81-84: priceScaled, and adjScaled for the orientation of the pool
PriceScaledV3(sqrtPrice) == (sqrtPrice * sqrtPrice * SCALE) \div Q192

\* lines 64-89 for one fee tier: what becomes of the query
ScanTier(ans, cfg) ==
  IF ans.status = "noPool" THEN TierOmitted("noPool")
  ELSE IF ans.status # "ok" THEN TierOmitted("threw")
  ELSE IF ans.liquidity = 0 THEN TierOmitted("noLiquidity")
  ELSE IF SameAddress(cfg.token0, cfg.tokenA)
    THEN [ kind |-> "quoted", sqrtPriceX96 |-> ans.sqrtPriceX96,
           price |-> PriceScaledV3(ans.sqrtPriceX96), liquidity |-> ans.liquidity ]
  ELSE IF PriceScaledV3(ans.sqrtPriceX96) = 0
    THEN TierOmitted("divisionByZero")   \* BigInt division by 0n: RangeError
  ELSE [ kind |-> "quoted", sqrtPriceX96 |-> ans.sqrtPriceX96,
         price |-> (SCALE * SCALE) \div PriceScaledV3(ans.sqrtPriceX96),
         liquidity |-> ans.liquidity ]

\* lines 103-124: what becomes of the SushiSwap query
ScanSushi(ans, cfg) ==
  IF ans.status \in {"noFactory", "noPair"}
    THEN [ outcome |-> ans.status, reserve0 |-> 0, reserve1 |-> 0, price |-> 0 ]
  ELSE IF ans.status # "ok"
    THEN [ outcome |-> "threw", reserve0 |-> 0, reserve1 |-> 0, price |-> 0 ]
  ELSE IF ans.reserve0 = 0 \/ ans.reserve1 = 0
    THEN [ outcome |-> "zeroReserve", reserve0 |-> 0, reserve1 |-> 0, price |-> 0 ]
  ELSE [ outcome |-> "quoted", reserve0 |-> ans.reserve0, reserve1 |-> ans.reserve1,
         price |-> IF SameAddress(cfg.token0, cfg.tokenA)
                     THEN (ans.reserve1 * SCALE) \div ans.reserve0
                     ELSE (ans.reserve0 * SCALE) \div ans.reserve1 ]

Threw(kind) == kind \in {"threw", "divisionByZero"}

\* SpecScan: findArbitrageOpportunities(tokenA, tokenB, minProfitBps) has
\* started all its queries; token0 is what the pools of the pair report.
InitScan ==
  /\ pairCfg \in [ tokenA : { Address("A", f) : f \in {"lower", "checksum"} },
                   token0 : { Address(t, "checksum") : t \in {"A", "B"} } ]
  /\ tierOutcome = [ t \in DOMAIN FeeTiers |-> Pending ]
  /\ results = <<>>
  /\ sushi = [ outcome |-> "pending", reserve0 |-> 0, reserve1 |-> 0, price |-> 0 ]
  /\ allPools = <<>>
  /\ minProfitBps = 0
  /\ opportunities = <<>>
  /\ rerun = <<>>
  /\ findPc = "querying"

\* the async function of line 62 for fee tier t runs to its end
TierResolve(t, ans) ==
  /\ findPc = "querying"
  /\ tierOutcome[t].kind = "pending"
  /\ LET r == ScanTier(ans, pairCfg)
     IN IF Threw(r.kind) /\ ~VenueErrorCaught
          THEN /\ findPc' = "rejected"
               /\ UNCHANGED <<tierOutcome, results>>
          ELSE /\ tierOutcome' = [tierOutcome EXCEPT
                                   ![t] = [ kind |-> r.kind, sqrtPriceX96 |-> r.sqrtPriceX96 ]]
               /\ results' = IF r.kind = "quoted"
                               THEN Append(results, V3Quote(FeeTiers[t], r.price, r.liquidity))
                               ELSE results
               /\ UNCHANGED findPc
  /\ UNCHANGED <<pairCfg, sushi, allPools, minProfitBps, opportunities, rerun,
                 chainVars, loopVars, laterVars>>

\* scanSushiswapPair runs to its end
SushiResolve(ans) ==
  /\ findPc = "querying"
  /\ sushi.outcome = "pending"
  /\ LET r == ScanSushi(ans, pairCfg)
     IN IF Threw(r.outcome) /\ ~VenueErrorCaught
          THEN findPc' = "rejected" /\ UNCHANGED sushi
          ELSE sushi' = r /\ UNCHANGED findPc
  /\ UNCHANGED <<pairCfg, tierOutcome, results, allPools, minProfitBps,
                 opportunities, rerun, chainVars, loopVars, laterVars>>

\* lines 142-164: both scans have resolved; gather the quotes, match, return
FindReturn(threshold) ==
  /\ findPc = "querying"
  /\ \A t \in DOMAIN tierOutcome : tierOutcome[t].kind # "pending"
  /\ sushi.outcome # "pending"
  /\ allPools' = IF sushi.outcome = "quoted"
                   THEN Append(results, SushiQuote(sushi.price))
                   ELSE results
  /\ minProfitBps' = threshold
  /\ opportunities' = MatchQuotes(allPools', threshold)
  /\ findPc' = "returned"
  /\ UNCHANGED <<pairCfg, tierOutcome, results, sushi, rerun, chainVars, loopVars, laterVars>>

\* ============================================ the planner's pure functions
\* ------------------------------------------ engine/config.js tokenDecimals
\* TOKEN_DECIMALS (lines 6-27), keyed by the lower-case spelling. An address
\* is named after the chain and the member of CHAINS that holds it; USDC and
\* USDT of BNB Smart Chain have 18 decimals (lines 11 and 16).
TOKEN_DECIMALS ==
  LET six      == { "ethereum.usdc", "polygon.usdc", "arbitrum.usdc",
                    "ethereum.usdt", "polygon.usdt", "arbitrum.usdt" }
      eighteen == { "bsc.usdc", "bsc.usdt",
                    "ethereum.dai", "polygon.dai", "arbitrum.dai", "bsc.dai",
                    "ethereum.weth", "polygon.weth", "arbitrum.weth", "bsc.weth" }
  IN [ a \in { Address(id, "lower") : id \in six \cup eighteen } |->
         IF a.id \in six THEN 6 ELSE 18 ]

FallbackDecimals == 18

\* mutant: the table is read with the address as it is spelled
tokenDecimalsExact(address) ==
  IF address \in DOMAIN TOKEN_DECIMALS
    THEN TOKEN_DECIMALS[address]
    ELSE FallbackDecimals

\* lines 33-35: TOKEN_DECIMALS[address.toLowerCase()] ?? 18
tokenDecimals(address) ==
  IF ToLowerCase(address) \in DOMAIN TOKEN_DECIMALS
    THEN TOKEN_DECIMALS[ToLowerCase(address)]
    ELSE FallbackDecimals

\* A decimal number is kept as its digits and the count of those that follow
\* the point: coef / 10^frac. An amount of base units is kept as
\* coef * 10^exp, the powers of ten of 18 decimals being beyond the integers
\* of the checker.
Decimal(coef, frac) == [ coef |-> coef, frac |-> frac ]
Units(coef, exp)    == [ coef |-> coef, exp |-> exp ]
ParseError          == [ coef |-> -1, exp |-> -1 ]

\* ethers.parseUnits(String(v), decimals): a value with more fractional
\* digits than `decimals` is refused
parseUnits(v, decimals) ==
  IF v.frac > decimals THEN ParseError
  ELSE Units(v.coef, decimals - v.frac)

\* index.js lines 128-129
LoanAmount(address, usd) == parseUnits(usd, tokenDecimals(address))

\* ------------------------------------------ executor.js encodeArbParams
\* The bytes are a sequence of 32-byte words. A word is kept as its low bits
\* and what fills the bytes above them: zeros, or ones for a negative int.
\* int128 is kept IntBits wide.
Word(pad, low) == [ pad |-> pad, low |-> low ]

\* mutant: fee2 is written before fee1
TupleTypesFeesSwapped ==
  << <<"dex1", "uint8">>, <<"dex2", "uint8">>,
     <<"tokenBorrow", "address">>, <<"tokenIntermediate", "address">>,
     <<"fee2", "uint24">>, <<"fee1", "uint24">>,
     <<"curvePool1", "address">>, <<"curvePool2", "address">>,
     <<"curveI1", "int128">>, <<"curveJ1", "int128">>,
     <<"curveI2", "int128">>, <<"curveJ2", "int128">>,
     <<"amountOutMin1", "uint256">>, <<"amountOutMin2", "uint256">> >>

\* lines 31-34: the components of the tuple type, in order
TupleTypes ==
  << <<"dex1", "uint8">>, <<"dex2", "uint8">>,
     <<"tokenBorrow", "address">>, <<"tokenIntermediate", "address">>,
     <<"fee1", "uint24">>, <<"fee2", "uint24">>,
     <<"curvePool1", "address">>, <<"curvePool2", "address">>,
     <<"curveI1", "int128">>, <<"curveJ1", "int128">>,
     <<"curveI2", "int128">>, <<"curveJ2", "int128">>,
     <<"amountOutMin1", "uint256">>, <<"amountOutMin2", "uint256">> >>

\* the ABI word of a value of a static type: an address loses its spelling,
\* a negative integer is written in two's complement
EncodeWord(type, v) ==
  IF type = "address" THEN Word("zeros", v.id)
  ELSE IF type = "int128" /\ v < 0 THEN Word("ones", 2 ^ IntBits + v)
  ELSE Word("zeros", v)

\* lines 27-38: the tuple coder takes each component from the object by its
\* name, in the order of the type; a static tuple is written in place
encodeArbParams(params) ==
  [ i \in DOMAIN TupleTypes |-> EncodeWord(TupleTypes[i][2], params[TupleTypes[i][1]]) ]

\* FlashLoanArbitrageV3.sol lines 127-142: the members of ArbParams, in order
ArbParamsStruct ==
  << <<"dex1", "uint8">>, <<"dex2", "uint8">>,
     <<"tokenBorrow", "address">>, <<"tokenIntermediate", "address">>,
     <<"fee1", "uint24">>, <<"fee2", "uint24">>,
     <<"curvePool1", "address">>, <<"curvePool2", "address">>,
     <<"curveI1", "int128">>, <<"curveJ1", "int128">>,
     <<"curveI2", "int128">>, <<"curveJ2", "int128">>,
     <<"amountOutMin1", "uint256">>, <<"amountOutMin2", "uint256">> >>

DecodeWord(type, w) ==
  IF type = "int128" /\ w.pad = "ones" THEN w.low - 2 ^ IntBits
  ELSE w.low

MemberIndex(name) ==
  CHOOSE i \in DOMAIN ArbParamsStruct : ArbParamsStruct[i][1] = name

\* line 257: abi.decode(params, (ArbParams)): member k is read from word k
AbiDecode(words) ==
  [ name \in { ArbParamsStruct[i][1] : i \in DOMAIN ArbParamsStruct } |->
      DecodeWord(ArbParamsStruct[MemberIndex(name)][2], words[MemberIndex(name)]) ]

\* ------------------------------------------------------------ SpecFn
\* the 20-byte values of the model and their spellings
AddressIds   == { a.id : a \in DOMAIN TOKEN_DECIMALS } \cup {"other"}
AddressForms == {"lower", "checksum"}
ZeroAddr     == Address("zero", "lower")     \* ethers.ZeroAddress

CurveIndexes == { -(2 ^ (IntBits - 1)), -1, 0, 1, 2 ^ (IntBits - 1) - 1 }

\* plans as encodeArbParams may be given them: every member present
FnPlans ==
  { [ dex1 |-> d[1], dex2 |-> d[2],
      tokenBorrow |-> Address(t[1], form), tokenIntermediate |-> Address(t[2], form),
      fee1 |-> f[1], fee2 |-> f[2],
      curvePool1 |-> c[1], curvePool2 |-> c[2],
      curveI1 |-> x, curveJ1 |-> y, curveI2 |-> y, curveJ2 |-> x,
      amountOutMin1 |-> m, amountOutMin2 |-> 1 - m ] :
      d \in {<<1, 2>>, <<2, 1>>, <<3, 3>>, <<1, 1>>},
      t \in {<<"ethereum.usdc", "ethereum.weth">>, <<"bsc.weth", "bsc.usdc">>},
      form \in AddressForms,
      f \in {<<500, 3000>>, <<3000, 500>>, <<3000, 3000>>},
      c \in {<<ZeroAddr, ZeroAddr>>, <<Address("other", "checksum"), ZeroAddr>>},
      x \in {0, -1}, y \in CurveIndexes, m \in 0..1 }

DefaultUsd == Decimal(10000, 0)              \* LOAN_AMOUNT_USD, line 24
LoanNotionals == { DefaultUsd, Decimal(1, 0), Decimal(5, 1), Decimal(1234567, 7) }

NoParams == [ name \in {} |-> 0 ]

InitFnIdle ==
  /\ fnParams = NoParams
  /\ fnWords = <<>>
  /\ fnDecoded = NoParams
  /\ fnAddress = NoAddress
  /\ fnUsd = DefaultUsd
  /\ fnLoan = ParseError
  /\ fnPc = "idle"

InitFn ==
  /\ fnWords = <<>>
  /\ fnDecoded = NoParams
  /\ fnLoan = ParseError
  /\ \/ /\ fnPc = "plan"
        /\ fnParams \in FnPlans
        /\ fnAddress = NoAddress
        /\ fnUsd = DefaultUsd
     \/ /\ fnPc = "loan"
        /\ fnParams = NoParams
        /\ fnAddress \in { Address(id, form) : id \in AddressIds, form \in AddressForms }
        /\ fnUsd \in LoanNotionals

\* executor.encodeArbParams(arbParamsObj)
Encode ==
  /\ fnPc = "plan"
  /\ fnWords' = encodeArbParams(fnParams)
  /\ fnPc' = "encoded"
  /\ UNCHANGED <<fnParams, fnDecoded, fnAddress, fnUsd, fnLoan,
                 chainVars, loopVars, scannerVars, planVars, relayVars, adminVars>>

\* the engine decodes the bytes it was sent
Decode ==
  /\ fnPc = "encoded"
  /\ fnDecoded' = AbiDecode(fnWords)
  /\ fnPc' = "decoded"
  /\ UNCHANGED <<fnParams, fnWords, fnAddress, fnUsd, fnLoan,
                 chainVars, loopVars, scannerVars, planVars, relayVars, adminVars>>

\* index.js lines 128-129 for the borrowed token fnAddress
ComputeLoan ==
  /\ fnPc = "loan"
  /\ fnLoan' = LoanAmount(fnAddress, fnUsd)
  /\ fnPc' = "computed"
  /\ UNCHANGED <<fnParams, fnWords, fnDecoded, fnAddress, fnUsd,
                 chainVars, loopVars, scannerVars, planVars, relayVars, adminVars>>

\* ================================== one pair of the scan loop in detail
\* index.js line 25: process.env.TRADE_LIVE === 'true'
EnvStrings == {"unset", "true", "false", "TRUE"}

\* mutant: every value but 'false' and the unset variable switches trading on
TradeLiveUnlessFalse(value) == value \notin {"unset", "false"}

TradeLive(value) == value = "true"

\* config.js: the keys of CHAINS (lines 38, 51, 65, 78) and CHAINS[name].flashbots
ChainNames == {"ethereum", "polygon", "arbitrum", "bsc"}
ChainFlashbots(name) == name = "ethereum"

\* config.js line 37: CHAINS is an object literal, so besides its four keys
\* it has the members of Object.prototype
ObjectPrototypeNames ==
  { "constructor", "hasOwnProperty", "isPrototypeOf", "propertyIsEnumerable",
    "toString", "toLocaleString", "valueOf", "__proto__",
    "__defineGetter__", "__defineSetter__", "__lookupGetter__", "__lookupSetter__" }

\* index.js line 14, CHAINS[name]: the configuration under a key of CHAINS,
\* the inherited member under a name of Object.prototype (a function, or
\* Object.prototype itself for __proto__), and undefined under any other name
Chains(name) ==
  IF name \in ChainNames THEN "configuration"
  ELSE IF name \in ObjectPrototypeNames THEN "inherited"
  ELSE "undefined"

\* index.js line 15, !CHAIN: configurations and functions are truthy
Truthy(value) == value # "undefined"

\* config.js: CHAINS[name][symbol] for the members weth, usdc, usdt and dai,
\* spelled in mixed case; an inherited member has none of them and the
\* lookup gives undefined
ChainToken(name, symbol) ==
  IF name \in ChainNames THEN Address(name \o "." \o symbol, "checksum")
  ELSE Address("undefined", "undefined")

\* MONITOR_PAIRS (lines 28-34) of the chain
MonitorPairs(name) ==
  { <<ChainToken(name, "usdc"), ChainToken(name, "usdt")>>,
    <<ChainToken(name, "usdc"), ChainToken(name, "dai")>>,
    <<ChainToken(name, "usdt"), ChainToken(name, "dai")>>,
    <<ChainToken(name, "weth"), ChainToken(name, "usdc")>>,
    <<ChainToken(name, "weth"), ChainToken(name, "usdt")>> }

MIN_PROFIT_BPS == 15     \* line 23, the default

\* The lists of quotes findArbitrageOpportunities gathers: each of two fee
\* tiers and the SushiSwap pair absent or quoting one of three prices.
PlanPrices == {PriceBase, PriceBase + PriceStep, PriceBase + 5 * PriceStep}
PlanPools ==
  { SelectSeq(<<q1, q2, q3>>, LAMBDA q : q.price # 0) :
      q1 \in { V3Quote(500, pr, 1) : pr \in PlanPrices \cup {0} },
      q2 \in { V3Quote(3000, pr, 1) : pr \in PlanPrices \cup {0} },
      q3 \in { SushiQuote(pr) : pr \in PlanPrices \cup {0} } }

\* mutant: the codes of the two venue types exchanged
DexCodeSwapped(source) == IF source = "uniswapV3" THEN 2 ELSE 1

\* lines 107-108: source === 'uniswapV3' ? 1 : 2
DexCode(source) == IF source = "uniswapV3" THEN 1 ELSE 2

\* lines 115-116: quote.fee ?? 3000
FeeOrDefault(quote) == IF "fee" \in DOMAIN quote THEN quote.fee ELSE 3000

\* lines 110-125
BuildArbParams(best, tokenA, tokenB) ==
  [ dex1 |-> DexCode(best.buy.source), dex2 |-> DexCode(best.sell.source),
    tokenBorrow |-> tokenA, tokenIntermediate |-> tokenB,
    fee1 |-> FeeOrDefault(best.buy), fee2 |-> FeeOrDefault(best.sell),
    curvePool1 |-> ZeroAddr, curvePool2 |-> ZeroAddr,
    curveI1 |-> 0, curveJ1 |-> 0, curveI2 |-> 0, curveJ2 |-> 0,
    amountOutMin1 |-> 0, amountOutMin2 |-> 0 ]

\* contract lines 263-287: the venue, fee and direction of a leg of the plan;
\* leg 1 sells tokenBorrow for tokenIntermediate on dex1, leg 2 sells
\* tokenIntermediate for tokenBorrow on dex2
PlanLeg(plan, leg) ==
  IF leg = 1
    THEN [ dex |-> plan.dex1, fee |-> plan.fee1,
           tokenIn |-> plan.tokenBorrow, tokenOut |-> plan.tokenIntermediate ]
    ELSE [ dex |-> plan.dex2, fee |-> plan.fee2,
           tokenIn |-> plan.tokenIntermediate, tokenOut |-> plan.tokenBorrow ]

\* mutant: the last opportunity of the list is taken
BestLast(found) == found[Len(found)]

\* line 98: best = opps[0]
Best(found) == found[1]

\* mutant: the estimate is passed on without the buffer
GasLimitUnbuffered(gas) == gas

\* executor.js line 49: (estimate * 130n) / 100n
GasLimit(gas) == (gas * 130) \div 100

\* a request made by execute: the call and the channel it goes through
Request(method, via, asset, amount, data, gasLimit) ==
  [ method |-> method, via |-> via, asset |-> asset, amount |-> amount,
    data |-> data, gasLimit |-> gasLimit ]

\* executor.js line 21: the contract is connected to the wallet, whose
\* provider is the JSON-RPC provider of buildProvider
ContractChannel == "wallet"

InitPlanIdle ==
  /\ env = [ TRADE_LIVE |-> "unset", CHAIN |-> "ethereum", PRIVATE_KEY |-> FALSE,
             LOAN_AMOUNT_USD |-> DefaultUsd ]
  /\ executor = "null"
  /\ flashbots = "null"
  /\ pairTokens = <<NoAddress, NoAddress>>
  /\ opps = <<>>
  /\ arbParamsObj = NoParams
  /\ loanAmount = ParseError
  /\ estimate = 0
  /\ requests = <<>>
  /\ planLogged = "none"
  /\ planPc = "idle"

\* main() has got to the scan loop (lines 51-85): live trading without a key
\* has left the process, the executor exists in live mode only, the Flashbots
\* provider on a Flashbots chain with a key
InitPlan ==
  /\ env \in [ TRADE_LIVE : EnvStrings, CHAIN : ChainNames, PRIVATE_KEY : BOOLEAN,
               LOAN_AMOUNT_USD : {DefaultUsd, Decimal(1234567, 7)} ]
  /\ TradeLive(env.TRADE_LIVE) => env.PRIVATE_KEY
  /\ executor = IF TradeLive(env.TRADE_LIVE) THEN "ArbExecutor" ELSE "null"
  /\ flashbots = IF ChainFlashbots(env.CHAIN) /\ env.PRIVATE_KEY
                   THEN "FlashbotsProvider" ELSE "null"
  /\ pairTokens \in MonitorPairs(env.CHAIN)
  /\ opps = <<>>
  /\ arbParamsObj = NoParams
  /\ loanAmount = ParseError
  /\ estimate = 0
  /\ requests = <<>>
  /\ planLogged = "none"
  /\ planPc = "quotes"

\* ------------------------------------------------ startup (index.js 13-85)
\* line 13: process.env.CHAIN || 'ethereum'; the unset variable and the empty
\* string are falsy
ChainName(value) == IF value \in {"unset", ""} THEN "ethereum" ELSE value

\* the values of CHAIN: unset, empty, the configured chains, names CHAINS
\* does not have (one of them a key of CHAINS in other letters), and the
\* names of the members every object inherits
ChainStrings ==
  ChainNames \cup {"unset", "", "mainnet", "Ethereum"} \cup ObjectPrototypeNames

\* the conditions under which the process leaves before the scan loop: the
\* chain whose lookup CHAINS[CHAIN_NAME] is falsy (14-18), the missing RPC
\* variable thrown by buildProvider (40) and caught at 152-155, live trading
\* without a key (62-65) or without the contract address (67-70).
\* e.RPC says that the variable process.env[CHAIN.rpcEnv] is set: the
\* variable rpcEnv names for a configured chain, the variable called
\* undefined for an inherited member, which has no rpcEnv.
StartupExits(e) ==
  \/ ~Truthy(Chains(ChainName(e.CHAIN)))
  \/ ~e.RPC
  \/ TradeLive(e.TRADE_LIVE) /\ ~e.PRIVATE_KEY
  \/ TradeLive(e.TRADE_LIVE) /\ ~e.ARB_CONTRACT_ADDRESS

\* the process has been started with some environment; nothing has run
InitStart ==
  /\ env \in [ TRADE_LIVE : EnvStrings, CHAIN : ChainStrings, PRIVATE_KEY : BOOLEAN,
               ARB_CONTRACT_ADDRESS : BOOLEAN, RPC : BOOLEAN,
               LOAN_AMOUNT_USD : {DefaultUsd, Decimal(1234567, 7)} ]
  /\ executor = "null"
  /\ flashbots = "null"
  /\ pairTokens = <<NoAddress, NoAddress>>
  /\ opps = <<>>
  /\ arbParamsObj = NoParams
  /\ loanAmount = ParseError
  /\ estimate = 0
  /\ requests = <<>>
  /\ planLogged = "none"
  /\ planPc = "startup"

\* lines 13-85 up to the first scan: the process exits with an error logged,
\* or the Flashbots provider and the executor are built and the scan of the
\* first pair begins; from line 13 on env.CHAIN stands for CHAIN_NAME. The pair
\* followed is any of MONITOR_PAIRS of the chain (line 91); an inherited
\* member has no flashbots member (line 73) and its pairs are pairs of
\* undefined tokens.
Startup ==
  /\ planPc = "startup"
  /\ env' = [env EXCEPT !.CHAIN = ChainName(@)]
  /\ IF StartupExits(env)
       THEN /\ planPc' = "exited"
            /\ planLogged' = "startup"
            /\ UNCHANGED <<executor, flashbots, pairTokens>>
       ELSE /\ flashbots' = IF ChainFlashbots(ChainName(env.CHAIN)) /\ env.PRIVATE_KEY
                              THEN "FlashbotsProvider" ELSE "null"
            /\ executor' = IF TradeLive(env.TRADE_LIVE) THEN "ArbExecutor" ELSE "null"
            /\ pairTokens' \in MonitorPairs(ChainName(env.CHAIN))
            /\ planPc' = "quotes"
            /\ UNCHANGED planLogged
  /\ UNCHANGED <<opps, arbParamsObj, loanAmount, estimate, requests,
                 chainVars, loopVars, scannerVars, fnVars, relayVars, adminVars>>

\* findArbitrageOpportunities rejects: the catch of line 137 logs
QuotesThrow ==
  /\ planPc = "quotes"
  /\ planLogged' = "scanner"
  /\ planPc' = "done"
  /\ UNCHANGED <<env, executor, flashbots, pairTokens, opps, arbParamsObj,
                 loanAmount, estimate, requests,
                 chainVars, loopVars, scannerVars, fnVars, relayVars, adminVars>>

\* lines 94-132 and executor.js 60-61: the opportunities arrive (for a pair
\* of undefined tokens no venue quotes: getPool is asked for each tier and
\* whatever it answers ends in the catch of scanner.js line 90 or in a return
\* before it, and there is no SushiSwap factory, lines 47-50 and 103); with none,
\* or without live trading, the iteration ends; otherwise the plan is built
\* from opps[0], the loan amount computed, and execute encodes the plan and
\* asks for the gas estimate
PlanPair(pools) ==
  /\ planPc = "quotes"
  /\ pairTokens[1].id = "undefined" => pools = <<>>
  /\ LET found == MatchQuotes(pools, MIN_PROFIT_BPS)
         plan  == BuildArbParams(Best(found), pairTokens[1], pairTokens[2])
         loan  == LoanAmount(pairTokens[1], env.LOAN_AMOUNT_USD)
     IN /\ opps' = found
        /\ IF found = <<>> \/ ~(TradeLive(env.TRADE_LIVE) /\ executor # "null")
             THEN /\ planPc' = "done"
                  /\ UNCHANGED <<arbParamsObj, loanAmount, requests, planLogged>>
           ELSE IF loan = ParseError
             THEN /\ arbParamsObj' = plan
                  /\ planLogged' = "scanner"
                  /\ planPc' = "done"
                  /\ UNCHANGED <<loanAmount, requests>>
           ELSE /\ arbParamsObj' = plan
                /\ loanAmount' = loan
                /\ requests' = Append(requests,
                                 Request("estimateGas", ContractChannel, plan.tokenBorrow,
                                         loan, encodeArbParams(plan), 0))
                /\ planPc' = "estimateGas"
                /\ UNCHANGED planLogged
  /\ UNCHANGED <<env, executor, flashbots, pairTokens, estimate,
                 chainVars, loopVars, scannerVars, fnVars, relayVars, adminVars>>

\* an await of execute rejects: the catch of line 133 logs, nothing follows
ExecuteThrows ==
  /\ planPc \in ExecutePcs
  /\ planLogged' = "executor"
  /\ planPc' = "done"
  /\ UNCHANGED <<env, executor, flashbots, pairTokens, opps, arbParamsObj,
                 loanAmount, estimate, requests,
                 chainVars, loopVars, scannerVars, fnVars, relayVars, adminVars>>

\* executor.js 44-49 and 67: the estimate arrives; the fee data is asked for
EstimateReturns(gas) ==
  /\ planPc = "estimateGas"
  /\ estimate' = gas
  /\ requests' = Append(requests,
                   Request("getFeeData", ContractChannel, NoAddress, ParseError, <<>>, 0))
  /\ planPc' = "getFeeData"
  /\ UNCHANGED <<env, executor, flashbots, pairTokens, opps, arbParamsObj,
                 loanAmount, planLogged,
                 chainVars, loopVars, scannerVars, fnVars, relayVars, adminVars>>

\* executor.js 68-77: the fee data arrives; executeArbitrage is sent through
\* the contract, with the buffered gas limit
FeeDataReturns ==
  /\ planPc = "getFeeData"
  /\ requests' = Append(requests,
                   Request("executeArbitrage", ContractChannel, arbParamsObj.tokenBorrow,
                           loanAmount, encodeArbParams(arbParamsObj),
                           GasLimit(estimate)))
  /\ planPc' = "send"
  /\ UNCHANGED <<env, executor, flashbots, pairTokens, opps, arbParamsObj,
                 loanAmount, estimate, planLogged,
                 chainVars, loopVars, scannerVars, fnVars, relayVars, adminVars>>

\* executor.js 79-82: the transaction is accepted, then its receipt arrives
SendReturns ==
  /\ planPc \in {"send", "wait"}
  /\ planPc' = IF planPc = "send" THEN "wait" ELSE "done"
  /\ UNCHANGED <<env, executor, flashbots, pairTokens, opps, arbParamsObj,
                 loanAmount, estimate, requests, planLogged,
                 chainVars, loopVars, scannerVars, fnVars, relayVars, adminVars>>

\* ========================================= engine/flashbots.js, the relay
\* ethers.toBeHex(n): the hex digits of n, a zero put in front of an odd
\* number of them
RECURSIVE HexDigits(_)
HexDigits(n) == IF n < 16 THEN <<n>> ELSE Append(HexDigits(n \div 16), n % 16)

toBeHex(n) ==
  IF Len(HexDigits(n)) % 2 = 1 THEN <<0>> \o HexDigits(n) ELSE HexDigits(n)

\* lines 36 and 71: the JSON-RPC method each function names in its body
RpcMethod(fn) == IF fn = "sendBundle" THEN "eth_sendBundle" ELSE "eth_callBundle"

\* lines 33-55 and 68-91: the request the function posts
RelayRequest(fn, txs, block) ==
  [ url |-> "https://relay.flashbots.net", method |-> RpcMethod(fn),
    txs |-> txs, blockNumber |-> toBeHex(block),
    stateBlockNumber |-> IF fn = "simulate" THEN "latest" ELSE "none",
    signed |-> TRUE ]

\* Response.ok
ResponseOk(httpStatus) == httpStatus \in 200..299

HttpStatuses == {200, 204, 400, 429, 500}
\* the texts a response may carry: a JSON-RPC result, a JSON-RPC error
\* object, a page of HTML, and no text at all
RelayBodies == {"result", "rpcError", "html", "empty"}
Bundles == { <<>>, <<"tx1">>, <<"tx1", "tx2">> }

\* the outcome of a call: a value returned, or an error thrown with its name
\* and the HTTP status its message holds
RelayReturned(value) == [ kind |-> "returned", value |-> value, error |-> "none", status |-> 0 ]
RelayThrew(error, httpStatus) ==
  [ kind |-> "threw", value |-> "none", error |-> error, status |-> httpStatus ]

\* lines 61 and 97, response.json(): the text is parsed as JSON; HTML and the
\* empty text make JSON.parse throw a SyntaxError
ResponseJson(text) ==
  IF text \in {"result", "rpcError"} THEN RelayReturned(text) ELSE RelayThrew("SyntaxError", 0)

NoResponse  == [ status |-> 0, body |-> "none" ]
Unresolved  == [ kind |-> "pending", value |-> "none", error |-> "none", status |-> 0 ]

InitRelayIdle ==
  /\ relayCall = [ fn |-> "none", txs |-> <<>>, block |-> 0 ]
  /\ relayRequests = <<>>
  /\ relayResponse = NoResponse
  /\ relayResult = Unresolved
  /\ relayPc = "idle"

InitRelay ==
  /\ relayCall \in [ fn : {"sendBundle", "simulate"}, txs : Bundles, block : 0..MaxBlock ]
  /\ relayRequests = <<>>
  /\ relayResponse = NoResponse
  /\ relayResult = Unresolved
  /\ relayPc = "signing"

\* lines 33-55 / 68-91: authSigner.signMessage and authSigner.getAddress have
\* resolved, and the signed body is posted
Post ==
  /\ relayPc = "signing"
  /\ relayRequests' = Append(relayRequests,
                        RelayRequest(relayCall.fn, relayCall.txs, relayCall.block))
  /\ relayPc' = "fetching"
  /\ UNCHANGED <<relayCall, relayResponse, relayResult,
                 chainVars, loopVars, scannerVars, fnVars, planVars, adminVars>>

\* lines 45, 48 / 81, 84: authSigner.signMessage or authSigner.getAddress
\* rejects (a signer that cannot sign, a remote signer out of reach); the
\* rejection leaves the function before fetch is called, no request is made
SignRejects ==
  /\ relayPc = "signing"
  /\ relayResult' = RelayThrew("SignerError", 0)
  /\ relayPc' = "done"
  /\ UNCHANGED <<relayCall, relayRequests, relayResponse,
                 chainVars, loopVars, scannerVars, fnVars, planVars, adminVars>>

\* lines 51-59 / 87-95: fetch resolves when the status line and the headers
\* have arrived; a status outside 200..299 throws the Error whose message
\* holds it, any other goes on to read the body
FetchResolves(httpStatus) ==
  /\ relayPc = "fetching"
  /\ relayResponse' = [ status |-> httpStatus, body |-> "unread" ]
  /\ IF ResponseOk(httpStatus)
       THEN relayPc' = "reading" /\ UNCHANGED relayResult
       ELSE /\ relayResult' = RelayThrew("Error", httpStatus)
            /\ relayPc' = "done"
  /\ UNCHANGED <<relayCall, relayRequests,
                 chainVars, loopVars, scannerVars, fnVars, planVars, adminVars>>

\* fetch rejects (no connection): the rejection leaves the function
FetchRejects ==
  /\ relayPc = "fetching"
  /\ relayResult' = RelayThrew("FetchError", 0)
  /\ relayPc' = "done"
  /\ UNCHANGED <<relayCall, relayRequests, relayResponse,
                 chainVars, loopVars, scannerVars, fnVars, planVars, adminVars>>

\* lines 61 / 97: the body has arrived whole and response.json() parses it; a
\* response of status 204 has no body
JsonResolves(text) ==
  /\ relayPc = "reading"
  /\ relayResponse.status = 204 => text = "empty"
  /\ relayResponse' = [relayResponse EXCEPT !.body = text]
  /\ relayResult' = ResponseJson(text)
  /\ relayPc' = "done"
  /\ UNCHANGED <<relayCall, relayRequests,
                 chainVars, loopVars, scannerVars, fnVars, planVars, adminVars>>

\* lines 61 / 97: the stream of the body breaks before its end and
\* response.json() rejects with the error of the stream
BodyRejects ==
  /\ relayPc = "reading"
  /\ relayResponse.status # 204
  /\ relayResult' = RelayThrew("StreamError", 0)
  /\ relayPc' = "done"
  /\ UNCHANGED <<relayCall, relayRequests, relayResponse,
                 chainVars, loopVars, scannerVars, fnVars, planVars, adminVars>>

\* ================================= the engine's storage, owner's functions
\* the arguments of the setters: the zero address, and a router to switch to
RouterArgs == {ZeroAddress, NewRouter}

\* line 113: event RouterUpdated(string dex, address newRouter)
RouterUpdated(dex, newRouter) ==
  [ name |-> "RouterUpdated", dex |-> dex, newRouter |-> newRouter ]

\* line 112: event ProfitWithdrawn(address indexed token, uint256 amount)
ProfitWithdrawn(token, amount) ==
  [ name |-> "ProfitWithdrawn", asset |-> token, amount |-> amount, profit |-> 0 ]

\* mutant: no address is refused
IsZeroAddressNever(a) == FALSE

\* lines 156-158, 171, 180: a == address(0)
IsZeroAddress(a) == a = ZeroAddress

\* line 190: bal == 0
IsZeroBalance(bal) == bal = 0

\* @openzeppelin Ownable, inherited at line 90:
\* event OwnershipTransferred(address indexed previousOwner, address indexed newOwner)
OwnershipTransferred(previousOwner, newOwner) ==
  [ name |-> "OwnershipTransferred", previousOwner |-> previousOwner,
    newOwner |-> newOwner ]

\* the engine as the other specifications start it: deployed by deploy.js
\* with the routers of the chain
InitAdminIdle ==
  /\ deployed = TRUE
  /\ uniswapV3Router = UniRouter
  /\ sushiswapRouter = SushiRouter
  /\ held = [a \in Accounts |-> [t \in Tokens |-> 0]]
  /\ owner = Owner
  /\ inner = [ calls |-> 0, call |-> NoCall ]

\* before the deployment: no code, storage all zero
InitAdmin ==
  /\ deployed = FALSE
  /\ uniswapV3Router = ZeroAddress
  /\ sushiswapRouter = ZeroAddress
  /\ held = [a \in Accounts |-> [t \in Tokens |-> 0]]
  /\ owner = ZeroAddress
  /\ inner = [ calls |-> 0, call |-> NoCall ]

\* lines 151-163: the deployment by the owner-to-be, whom Ownable(msg.sender)
\* makes the owner; a zero argument reverts it and no contract exists
Constructor(provider, uniswapV3, sushiswap) ==
  /\ ~deployed
  /\ pre'  = Snapshot
  /\ call' = <<"constructor", Owner, ZeroAddress>>
  /\ venueError' = NoVenueError
  /\ UNCHANGED <<calls, loopVars, scannerVars, fnVars, planVars, relayVars>>
  /\ IF IsZeroAddress(provider) \/ IsZeroAddress(uniswapV3) \/ IsZeroAddress(sushiswap)
       THEN /\ Abort(Snapshot, <<"ZeroAddress">>)
            /\ UNCHANGED deployed
       ELSE /\ deployed' = TRUE
            /\ owner' = Owner
            /\ uniswapV3Router' = uniswapV3
            /\ sushiswapRouter' = sushiswap
            /\ events' = <<OwnershipTransferred(ZeroAddress, Owner)>>
            /\ phase'  = "Returned"
            /\ reason' = <<>>
            /\ UNCHANGED <<balance, allowance, status, frame, venue, nested, held,
                           inner>>

\* A call of one of the owner's functions, none of which is nonReentrant:
\* a transaction sent to the engine, or, while the engine waits for a venue,
\* a call made by the venue or by a contract the venue calls. What the
\* function does before its body.
AdminCall(fn, sender, arg) ==
  /\ deployed
  /\ IF Running
       THEN /\ venue \in {1, 2}
            /\ inner.calls < MaxInner
            /\ inner' = [ calls |-> inner.calls + 1, call |-> <<fn, sender, arg>> ]
            /\ UNCHANGED <<calls, pre, call, venueError>>
       ELSE /\ calls < MaxAdminCalls
            /\ calls' = calls + 1
            /\ pre'   = Snapshot
            /\ call'  = <<fn, sender, arg>>
            /\ venueError' = NoVenueError
  /\ UNCHANGED <<deployed, loopVars, scannerVars, fnVars, planVars, relayVars>>

\* a revert in an owner's function: it reverts the transaction that called
\* the function; called by a venue, it undoes that call alone and the venue
\* goes on
AdminRevert(why) ==
  IF Running
    THEN /\ nested' = "rejected"
         /\ UNCHANGED <<balance, allowance, events, status, phase, frame, venue,
                        reason, storageVars>>
    ELSE Abort(Snapshot, why)

\* the return of an owner's function that did not revert, `log` what it
\* emitted
AdminReturn(log) ==
  IF Running
    THEN /\ events' = events \o log
         /\ nested' = "returned"
         /\ UNCHANGED <<allowance, status, phase, frame, venue, reason>>
    ELSE /\ events' = log
         /\ phase'  = "Returned"
         /\ reason' = <<>>
         /\ UNCHANGED <<allowance, status, frame, venue, nested, inner>>

\* lines 170-174
SetUniswapV3Router(sender, router) ==
  /\ AdminCall("setUniswapV3Router", sender, router)
  /\ IF ~onlyOwner(sender)
       THEN AdminRevert(<<"OwnableUnauthorizedAccount">>)
     ELSE IF IsZeroAddress(router)
       THEN AdminRevert(<<"ZeroAddress">>)
     ELSE /\ uniswapV3Router' = router
          /\ AdminReturn(<<RouterUpdated("UniswapV3", router)>>)
          /\ UNCHANGED <<balance, sushiswapRouter, held, owner>>

\* lines 179-183
SetSushiswapRouter(sender, router) ==
  /\ AdminCall("setSushiswapRouter", sender, router)
  /\ IF ~onlyOwner(sender)
       THEN AdminRevert(<<"OwnableUnauthorizedAccount">>)
     ELSE IF IsZeroAddress(router)
       THEN AdminRevert(<<"ZeroAddress">>)
     ELSE /\ sushiswapRouter' = router
          /\ AdminReturn(<<RouterUpdated("Sushiswap", router)>>)
          /\ UNCHANGED <<balance, uniswapV3Router, held, owner>>

\* lines 188-193: the whole balance of the token goes to owner()
WithdrawToken(sender, token) ==
  /\ AdminCall("withdrawToken", sender, token)
  /\ LET bal == balance[token]
     IN IF ~onlyOwner(sender)
          THEN AdminRevert(<<"OwnableUnauthorizedAccount">>)
        ELSE IF IsZeroBalance(bal)
          THEN AdminRevert(<<"InvalidAmount">>)
        ELSE /\ balance' = [balance EXCEPT ![token] = @ - bal]
             /\ held' = [held EXCEPT ![owner][token] = @ + bal]
             /\ AdminReturn(<<ProfitWithdrawn(token, bal)>>)
             /\ UNCHANGED <<uniswapV3Router, sushiswapRouter, owner>>

\* Ownable.transferOwnership, inherited at line 90: onlyOwner, the zero
\* address refused with OwnableInvalidOwner
TransferOwnership(sender, newOwner) ==
  /\ AdminCall("transferOwnership", sender, newOwner)
  /\ IF ~onlyOwner(sender)
       THEN AdminRevert(<<"OwnableUnauthorizedAccount">>)
     ELSE IF IsZeroAddress(newOwner)
       THEN AdminRevert(<<"OwnableInvalidOwner">>)
     ELSE /\ owner' = newOwner
          /\ AdminReturn(<<OwnershipTransferred(owner, newOwner)>>)
          /\ UNCHANGED <<balance, uniswapV3Router, sushiswapRouter, held>>

\* Ownable.renounceOwnership, inherited at line 90: onlyOwner, the engine is
\* left without an owner
RenounceOwnership(sender) ==
  /\ AdminCall("renounceOwnership", sender, ZeroAddress)
  /\ IF ~onlyOwner(sender)
       THEN AdminRevert(<<"OwnableUnauthorizedAccount">>)
     ELSE /\ owner' = ZeroAddress
          /\ AdminReturn(<<OwnershipTransferred(owner, ZeroAddress)>>)
          /\ UNCHANGED <<balance, uniswapV3Router, sushiswapRouter, held>>

\* executeArbitrage sent to the deployed engine
CallExecuteArbitrage(sender, asset, amount, arbParams) ==
  /\ deployed
  /\ ExecuteArbitrage(sender, asset, amount, arbParams)

InitLaterIdle == InitFnIdle /\ InitPlanIdle /\ InitRelayIdle

\* ------------------------------------------------------------------ Next
Next ==
  \/ \E asset \in BorrowAssets, amount \in 1..MaxAmount, arbParams \in ArbParams :
       ExecuteArbitrage(Owner, asset, amount, arbParams)
  \/ \E sender \in Callers, asset \in BorrowAssets, amount \in 0..MaxAmount,
        arbParams \in ForeignPlans :
       /\ ~onlyOwner(sender) \/ amount = 0
       /\ ExecuteArbitrage(sender, asset, amount, arbParams)
  \/ \E premium \in 0..MaxPremium : FlashLoanAdvance(premium)
  \/ FlashLoanRefused
  \/ \E sender \in Callers, initiator \in {Engine, Stranger},
        asset \in BorrowAssets, amount \in 1..MaxAmount,
        premium \in 0..MaxPremium, arbParams \in ForeignPlans :
       DirectExecuteOperation(sender, initiator, asset, amount, premium, arbParams)
  \/ \E caller \in Callers, asset \in BorrowAssets, amount \in 1..MaxAmount,
        premium \in 0..MaxPremium, arbParams \in ForeignPlans :
       ForeignFlashLoan(caller, asset, amount, premium, arbParams)
  \/ \E leg \in {1, 2} : SwapCall(leg)
  \/ VenuePull
  \/ \E out \in 0..MaxOut : VenuePay(out)
  \/ \E out \in 0..MaxOut : VenueReturn(out)
  \/ VenueReverts
  \/ RepaymentCheck
  \/ Settle
  \/ PoolCollect
  \/ \E sender \in Callers \cup {Pool}, amount \in 0..MaxAmount :
       ReenterExecuteArbitrage(sender, amount)
  \/ \E caller \in Callers : ReenterFlashLoan(caller)
  \/ \E sender \in Callers, initiator \in {Engine, Stranger} :
       ReenterExecuteOperation(sender, initiator)

Init == InitAdminIdle /\ InitChain /\ InitLoopIdle /\ InitScannerIdle /\ InitLaterIdle

Spec == Init /\ [][Next]_vars

\* ---------------------------------------------------------------- SpecLoop
InitL == InitAdminIdle /\ InitChain /\ InitLoop /\ InitScannerIdle /\ InitLaterIdle

NextLoop ==
  \/ MainScan
  \/ TimerFire
  \/ \E i \in ScanIds, outcome \in QuoteOutcomes : QuotesReturn(i, outcome)
  \/ \E i \in ScanIds, ok \in BOOLEAN : ExecuteStep(i, ok)

SpecLoop == InitL /\ [][NextLoop]_vars

\* --------------------------------------------------------------- SpecMatch
InitM == InitAdminIdle /\ InitChain /\ InitLoopIdle /\ InitMatch /\ InitLaterIdle

NextMatch ==
  \/ \E threshold \in Thresholds : Match(threshold)
  \/ Rematch

SpecMatch == InitM /\ [][NextMatch]_vars

\* ---------------------------------------------------------------- SpecScan
DefaultMinProfitBps == 10

InitS == InitAdminIdle /\ InitChain /\ InitLoopIdle /\ InitScan /\ InitLaterIdle

NextScan ==
  \/ \E t \in DOMAIN FeeTiers, ans \in TierAnswers : TierResolve(t, ans)
  \/ \E ans \in SushiAnswers : SushiResolve(ans)
  \/ \E threshold \in {0, DefaultMinProfitBps} : FindReturn(threshold)

SpecScan == InitS /\ [][NextScan]_vars

\* ------------------------------------------------------------------ SpecFn
InitF == InitAdminIdle /\ InitChain /\ InitLoopIdle /\ InitScannerIdle /\ InitFn /\ InitPlanIdle
           /\ InitRelayIdle

NextFn ==
  \/ Encode
  \/ Decode
  \/ ComputeLoan

SpecFn == InitF /\ [][NextFn]_vars

\* ---------------------------------------------------------------- SpecPlan
InitP == InitAdminIdle /\ InitChain /\ InitLoopIdle /\ InitScannerIdle /\ InitFnIdle /\ InitPlan
           /\ InitRelayIdle

NextPlan ==
  \/ QuotesThrow
  \/ \E pools \in PlanPools : PlanPair(pools)
  \/ ExecuteThrows
  \/ \E gas \in 1..MaxGasEstimate : EstimateReturns(gas)
  \/ FeeDataReturns
  \/ SendReturns

SpecPlan == InitP /\ [][NextPlan]_vars

\* --------------------------------------------------------------- SpecStart
InitT == InitAdminIdle /\ InitChain /\ InitLoopIdle /\ InitScannerIdle /\ InitFnIdle /\ InitStart
           /\ InitRelayIdle

NextStart ==
  \/ Startup
  \/ NextPlan

SpecStart == InitT /\ [][NextStart]_vars

\* --------------------------------------------------------------- SpecAdmin
InitA == InitAdmin /\ InitChain /\ InitLoopIdle /\ InitScannerIdle /\ InitFnIdle
           /\ InitPlanIdle /\ InitRelayIdle

NextAdmin ==
  \/ \E provider \in {ZeroAddress, "addressesProvider"},
        uniswapV3 \in {ZeroAddress, UniRouter}, sushiswap \in {ZeroAddress, SushiRouter} :
       Constructor(provider, uniswapV3, sushiswap)
  \/ \E sender \in Accounts, router \in RouterArgs :
       SetUniswapV3Router(sender, router)
  \/ \E sender \in Accounts, router \in RouterArgs :
       SetSushiswapRouter(sender, router)
  \/ \E sender \in Accounts, token \in Tokens : WithdrawToken(sender, token)
  \/ \E sender \in Accounts, newOwner \in Accounts \cup {ZeroAddress} :
       TransferOwnership(sender, newOwner)
  \/ \E sender \in Accounts : RenounceOwnership(sender)
  \/ \E sender \in Accounts, asset \in BorrowAssets, amount \in 0..MaxAmount,
        arbParams \in ForeignPlans :
       CallExecuteArbitrage(sender, asset, amount, arbParams)
  \/ \E premium \in 0..MaxPremium : FlashLoanAdvance(premium)
  \/ FlashLoanRefused
  \/ \E leg \in {1, 2} : SwapCall(leg)
  \/ VenuePull
  \/ \E out \in 0..MaxOut : VenuePay(out)
  \/ \E out \in 0..MaxOut : VenueReturn(out)
  \/ VenueReverts
  \/ RepaymentCheck
  \/ Settle
  \/ PoolCollect

SpecAdmin == InitA /\ [][NextAdmin]_vars

\* --------------------------------------------------------------- SpecRelay
InitR == InitAdminIdle /\ InitChain /\ InitLoopIdle /\ InitScannerIdle /\ InitFnIdle /\ InitPlanIdle
           /\ InitRelay

NextRelay ==
  \/ Post
  \/ SignRejects
  \/ \E httpStatus \in HttpStatuses : FetchResolves(httpStatus)
  \/ FetchRejects
  \/ \E text \in RelayBodies : JsonResolves(text)
  \/ BodyRejects

SpecRelay == InitR /\ [][NextRelay]_vars

\* ================================================================ claims
ErrorName == IF reason = <<>> THEN "none" ELSE reason[1]

\* balances and allowances are those the transaction began with, and the
\* transaction has left no event
NoEffects ==
  /\ balance   = pre.balance
  /\ allowance = pre.allowance
  /\ events    = pre.events

Owed == frame.amountBorrowed + frame.premium

PastLeg1 == {"Leg1Swapped", "Leg2Swapped", "RepaymentVerified", "Settled"}
PastLeg2 == {"Leg2Swapped", "RepaymentVerified", "Settled"}
SupportedCodes == {1, 2, 3}

\* C1: a settlement passes the repayment check and reaches its success end
\* only with a balance of the borrowed token of at least amount + premium
\* (then the pool is approved for exactly that and ArbExecuted is the last
\* event); a revert with InsufficientBalance(required, available) has
\* available < required and leaves no approval and no event behind.
C1_SettledOnlyIfCovered ==
  /\ (Running /\ phase \in {"RepaymentVerified", "Settled"}) =>
        /\ frame.balanceRead >= Owed
        /\ balance[frame.asset] >= Owed
  /\ (Running /\ phase = "Settled") =>
        /\ allowance[frame.asset][Pool] = Owed
        /\ events[Len(events)].name = "ArbExecuted"
  /\ ErrorName = "InsufficientBalance" =>
        /\ phase = "Aborted"
        /\ reason[3] < reason[2]
        /\ \A t \in Tokens : allowance[t][Pool] = 0
        /\ NoEffects

\* C1 witness: a settlement at its success end whose balance at the check was
\* exactly amount + premium, the premium not zero.
C1_Witness ==
  /\ Running /\ phase = "Settled"
  /\ frame.premium > 0
  /\ frame.balanceRead = Owed

\* C2 (as claimed): a settlement whose second leg returned less than
\* amount + premium never reaches its success end, whatever the engine held
\* before the loan.
C2_LosingTradeNeverSettles ==
  (Running /\ phase = "Settled") => frame.finalReceived >= Owed

\* C3 (as claimed): at most one invocation of scan is in flight.
C3_OneScanInFlight == Cardinality(InFlight) <= 1

\* C4 (as claimed): at most one invocation of scan is inside
\* executor.execute.
C4_OneSubmissionInFlight == Cardinality(Executing) <= 1

\* C5: a settlement that is under way was started by the owner and is driven
\* by the pool with the engine as initiator; executeArbitrage from any other
\* account is rejected, and executeOperation from a sender other than POOL or
\* with another initiator reverts with Unauthorized, both without any effect.
C5_OnlyOwnerStartsOnlyPoolDrives ==
  /\ Running => frame.starter = Owner
  /\ (Running /\ phase # "Initiated") =>
        /\ frame.msgSender = Pool
        /\ frame.initiator = Engine
  /\ (call[1] = "executeArbitrage" /\ call[2] # Owner) =>
        /\ ~Running /\ phase = "Aborted" /\ NoEffects
  /\ (call[1] = "executeOperation" /\ (call[2] # Pool \/ call[3] # Engine)) =>
        /\ ~Running /\ phase = "Aborted"
        /\ reason = <<"Unauthorized">>
        /\ NoEffects

\* C5 witness: the pool called executeOperation for a loan a stranger asked
\* for with the engine as receiver, and the call reverted with Unauthorized.
C5_Witness ==
  /\ call = <<"executeOperation", Pool, Stranger>>
  /\ reason = <<"Unauthorized">>

\* C6: while a settlement sequence runs, no call into the engine begins a
\* second one: every such call is rejected.
C6_NoOverlappingSettlement == nested # "begun"

\* C6 witness: during the venue call of leg 2 a call into the engine was made
\* and rejected.
C6_Witness == Running /\ venue = 2 /\ nested = "rejected"

\* C7: within one transaction the phase moves only along Initiated, Advanced,
\* Leg1Swapped, Leg2Swapped, RepaymentVerified, Settled, or from a phase before
\* Settled to Aborted; Settled and Aborted are left only by a new transaction;
\* the venue of leg 2 is called only after leg 1 returned its output, and the
\* repayment check passes only after leg 2 returned.
C7_Forward ==
  { <<"Initiated", "Advanced">>, <<"Advanced", "Leg1Swapped">>,
    <<"Leg1Swapped", "Leg2Swapped">>, <<"Leg2Swapped", "RepaymentVerified">>,
    <<"RepaymentVerified", "Settled">> }

C7_NonTerminal ==
  {"Initiated", "Advanced", "Leg1Swapped", "Leg2Swapped", "RepaymentVerified"}

C7_Step ==
  /\ calls' = calls =>
        \/ phase' = phase
        \/ <<phase, phase'>> \in C7_Forward
        \/ phase \in C7_NonTerminal /\ phase' = "Aborted"
  /\ calls' # calls =>
        /\ ~Running
        /\ phase \in {"Idle", "Settled", "Aborted"}
        /\ phase' \in {"Initiated", "Aborted"}
  /\ (venue' = 1 /\ venue # 1) => phase = "Advanced"
  /\ (venue' = 2 /\ venue # 2) =>
        phase = "Leg1Swapped" /\ frame.intermediateReceived >= 0
  /\ (phase' = "RepaymentVerified" /\ phase # "RepaymentVerified") =>
        venue = 0 /\ frame.finalReceived >= 0

C7_StatesInOrder == [][C7_Step]_vars

\* C7 witness: a second transaction's settlement at its success end after both
\* legs returned an output.
C7_Witness ==
  /\ calls = 2 /\ Running /\ phase = "Settled"
  /\ frame.intermediateReceived > 0 /\ frame.finalReceived > 0

\* C8: after an aborted transaction the engine's balances and allowances are
\* those it had before the transaction, and the transaction left no event.
C8_AbortLeavesNoEffects == phase = "Aborted" => NoEffects

\* C8 witness: a transaction that follows a settled one and aborted at the
\* repayment check, after both legs had moved tokens.
C8_Witness ==
  /\ phase = "Aborted" /\ ErrorName = "InsufficientBalance"
  /\ calls >= 2 /\ balance["tokenA"] > 0

\* C9: a leg is passed only with an output of at least the plan's minimum for
\* that leg; when a venue refuses for too small an output the transaction is
\* aborted with SwapFailed and without effect.
C9_MinimumOutputsHonoured ==
  /\ (Running /\ phase \in PastLeg1) =>
        frame.intermediateReceived >= frame.arb.amountOutMin1
  /\ (Running /\ phase \in PastLeg2) =>
        frame.finalReceived >= frame.arb.amountOutMin2
  /\ venueError.cause = "TooLittleReceived" =>
        /\ ~Running /\ phase = "Aborted"
        /\ ErrorName = "SwapFailed"
        /\ NoEffects

\* C9 witness: leg 2 realized less than amountOutMin2 and the transaction
\* was aborted.
C9_Witness ==
  /\ venueError = [ leg |-> 2, cause |-> "TooLittleReceived" ]
  /\ phase = "Aborted"

\* C10: no venue is called and no leg is passed with a venue-type code other
\* than 1, 2, 3; from the start of a leg with such a code the only step is
\* the abort with SwapFailed(code), with no approval granted.
C10_Step ==
  /\ (Running /\ venue = 0 /\ phase = "Advanced" /\ phase' # phase
        /\ frame.arb.dex1 \notin SupportedCodes) =>
        /\ phase' = "Aborted"
        /\ reason' = <<"SwapFailed", frame.arb.dex1>>
        /\ allowance' = pre.allowance
  /\ (Running /\ venue = 0 /\ phase = "Leg1Swapped" /\ phase' # phase
        /\ frame.arb.dex2 \notin SupportedCodes) =>
        /\ phase' = "Aborted"
        /\ reason' = <<"SwapFailed", frame.arb.dex2>>
        /\ allowance' = pre.allowance

C10_Inv ==
  /\ (Running /\ (venue = 1 \/ phase \in PastLeg1)) =>
        frame.arb.dex1 \in SupportedCodes
  /\ (Running /\ (venue = 2 \/ phase \in PastLeg2)) =>
        frame.arb.dex2 \in SupportedCodes
  /\ (Running /\ phase \in {"Advanced", "Leg1Swapped"} /\ venue = 0) =>
        \A t \in Tokens, sp \in Spenders : allowance[t][sp] = 0

C10_UnsupportedVenueAborts == []C10_Inv /\ [][C10_Step]_vars

\* C10 witness: leg 2 of a plan had the unsupported code 4 and the transaction
\* was aborted with SwapFailed(4) without any venue having failed.
C10_Witness ==
  /\ phase = "Aborted" /\ reason = <<"SwapFailed", 4>>
  /\ venueError = NoVenueError
  /\ call = <<"executeArbitrage", Owner, ZeroAddress>>

\* ------------------------------------------------ claims on the matcher
\* findArbitrageOpportunities has returned its list
Reported == findPc \in {"returned", "rerun"}

\* the quotes an opportunity was built from, in the order of allPools
QuoteA(o) == allPools[o.pair[1]]
QuoteB(o) == allPools[o.pair[2]]

\* (i, j) is enumerated before (k, l) by the loops of lines 147-148
EnumeratedBefore(p, q) == p[1] < q[1] \/ (p[1] = q[1] /\ p[2] < q[2])

\* C11: for every reported pair of quotes with different prices, profitBps is
\* the integer nearest to |price_i - price_j| / min(price_i, price_j) * 10000
\* (a half rounded up), the buy leg is the lower-priced quote and the sell
\* leg the higher-priced one.
\* Violated by the quotes of scaled prices 288 and 783: the spread is exactly
\* 17187.5 basis points, that of the two doubles rounds to 17188 as well, and
\* lines 153-154 give 17187.
C11_ProfitBpsAndLegs ==
  Reported =>
    \A k \in DOMAIN opportunities :
      LET o == opportunities[k]
          a == QuoteA(o)
          b == QuoteB(o)
          d == Abs(a.price - b.price)
          m == Min(a.price, b.price)
      IN a.price # b.price =>
           /\ (2 * o.profitBps - 1) * m <= 2 * d * 10000
           /\ 2 * d * 10000 < (2 * o.profitBps + 1) * m
           /\ a.price < b.price => (o.buy = a /\ o.sell = b)
           /\ b.price < a.price => (o.buy = b /\ o.sell = a)
           /\ o.buy.price < o.sell.price

\* C12: the reported pairs are exactly the pairs of quotes with non-zero
\* prices whose profitBps is at least minProfitBps, each reported once; with
\* prices 100.00 and 100.20 (here 10000 and 10020) there is one opportunity
\* of 20 basis points at threshold 10 and none at threshold 25.
C12_ExactlyAtOrAboveThreshold ==
  Reported =>
    /\ { opportunities[k].pair : k \in DOMAIN opportunities } =
         { p \in (DOMAIN allPools) \X (DOMAIN allPools) :
             /\ p[1] < p[2]
             /\ allPools[p[1]].price # 0 /\ allPools[p[2]].price # 0
             /\ ProfitBps(allPools[p[1]], allPools[p[2]]) >= minProfitBps }
    /\ \A k, l \in DOMAIN opportunities :
         opportunities[k].pair = opportunities[l].pair => k = l
    /\ \A k \in DOMAIN opportunities :
         opportunities[k].profitBps >= minProfitBps
    /\ (Len(allPools) = 2
          /\ {allPools[1].price, allPools[2].price} = {10000, 10020}) =>
         /\ minProfitBps = 10 =>
              Len(opportunities) = 1 /\ opportunities[1].profitBps = 20
         /\ minProfitBps = 25 => opportunities = <<>>

\* C12 witness: scenario A, the constant-product quote at 100.00 and the
\* concentrated-liquidity quote at 100.20 with threshold 10.
C12_Witness ==
  /\ Reported
  /\ minProfitBps = 10
  /\ allPools = <<V3Quote(500, 10020, 1), SushiQuote(10000)>>
  /\ Len(opportunities) = 1
  /\ opportunities[1].profitBps = 20
  /\ opportunities[1].buy.source = "sushiswap"
  /\ opportunities[1].sell.source = "uniswapV3"

\* C13: the list is sorted by profitBps descending, opportunities of equal
\* profitBps are in the order their pairs were enumerated, and a second run on
\* the same quotes and threshold returns the same list.
C13_SortedStableRepeatable ==
  /\ Reported =>
       \A k, l \in DOMAIN opportunities :
         k < l =>
           /\ opportunities[k].profitBps >= opportunities[l].profitBps
           /\ opportunities[k].profitBps = opportunities[l].profitBps =>
                EnumeratedBefore(opportunities[k].pair, opportunities[l].pair)
  /\ findPc = "rerun" => rerun = opportunities

\* C13 witness: a second run returned three opportunities, the first of
\* higher profitBps than the two others, which are equal.
C13_Witness ==
  /\ findPc = "rerun"
  /\ Len(rerun) = 3
  /\ rerun[1].profitBps > rerun[2].profitBps
  /\ rerun[2].profitBps = rerun[3].profitBps
  /\ rerun[1].pair = <<1, 3>>

\* C14 (as claimed): every reported opportunity has buy.price < sell.price,
\* whatever the threshold.
C14_BuyStrictlyBelowSell ==
  Reported =>
    \A k \in DOMAIN opportunities :
      opportunities[k].buy.price < opportunities[k].sell.price

\* ------------------------------------------ claims on the venue queries
QuotesOfTier(t) == { k \in DOMAIN results : results[k].fee = FeeTiers[t] }

Token0IsTokenA == pairCfg.token0.id = pairCfg.tokenA.id

\* C15 (as claimed): a pool without liquidity and a pair with a zero reserve
\* yield no quote, no quote computation divides by zero, and no opportunity
\* has a leg of price 0.
C15_NoDivisionByZero ==
  /\ \A t \in DOMAIN tierOutcome :
       tierOutcome[t].kind = "noLiquidity" => QuotesOfTier(t) = {}
  /\ (Reported /\ sushi.outcome = "zeroReserve") =>
       \A k \in DOMAIN allPools : allPools[k].source # "sushiswap"
  /\ \A t \in DOMAIN tierOutcome : tierOutcome[t].kind # "divisionByZero"
  /\ Reported =>
       \A k \in DOMAIN opportunities :
         opportunities[k].buy.price # 0 /\ opportunities[k].sell.price # 0

\* C16: the SushiSwap quote of a pair with non-zero reserves has the scaled
\* price floor(reserveB * SCALE / reserveA), reserveA being the reserve of
\* tokenA: reserve0 when the pair's token0 is tokenA (whatever the spelling
\* of the two addresses), reserve1 otherwise.
C16_ConstantProductPrice ==
  /\ sushi.outcome = "quoted" =>
       LET rA == IF Token0IsTokenA THEN sushi.reserve0 ELSE sushi.reserve1
           rB == IF Token0IsTokenA THEN sushi.reserve1 ELSE sushi.reserve0
       IN /\ rA > 0 /\ rB > 0
          /\ sushi.price * rA <= rB * SCALE
          /\ rB * SCALE < (sushi.price + 1) * rA
  /\ (Reported /\ sushi.outcome = "quoted") =>
       allPools[Len(allPools)] = SushiQuote(sushi.price)

\* C16 witness: tokenA was passed in lower case, the pair's token0 is tokenA
\* in checksum spelling, the reserves are 1 and 2 and the quote is 2 * SCALE.
C16_Witness ==
  /\ Reported
  /\ pairCfg.tokenA.form = "lower" /\ Token0IsTokenA
  /\ sushi.outcome = "quoted"
  /\ sushi.reserve0 = 1 /\ sushi.reserve1 = 2
  /\ sushi.price = 2 * SCALE

\* C17 (as claimed): every fee tier whose pool answered with non-zero
\* liquidity yields its own quote, of price floor(sqrtPriceX96^2 * SCALE / Q192)
\* when token0 is tokenA and floor(SCALE^2 / that value) otherwise.
C17_EachTierQuotes ==
  \A t \in DOMAIN tierOutcome :
    tierOutcome[t].kind \in {"quoted", "divisionByZero"} =>
      \E k \in DOMAIN results :
        /\ results[k].fee = FeeTiers[t]
        /\ LET sq == tierOutcome[t].sqrtPriceX96
               ps == (sq * sq * SCALE) \div Q192
           IN IF Token0IsTokenA
                THEN results[k].price = ps
                ELSE ps # 0 /\ results[k].price = (SCALE * SCALE) \div ps

\* C18: no failure of a venue query makes findArbitrageOpportunities fail;
\* a fee tier has one quote if its query produced one and none otherwise, and
\* the list returned is matched over the quotes of all venues that answered,
\* the Uniswap V3 quotes first and the SushiSwap quote last.
C18_VenueFailureOmitsOnlyThatVenue ==
  /\ findPc # "rejected"
  /\ \A t \in DOMAIN tierOutcome :
       Cardinality(QuotesOfTier(t)) = IF tierOutcome[t].kind = "quoted" THEN 1 ELSE 0
  /\ Reported =>
       /\ allPools = results \o (IF sushi.outcome = "quoted"
                                   THEN <<SushiQuote(sushi.price)>> ELSE <<>>)
       /\ Len(allPools) =
            Cardinality({ t \in DOMAIN tierOutcome : tierOutcome[t].kind = "quoted" })
              + (IF sushi.outcome = "quoted" THEN 1 ELSE 0)
       /\ { opportunities[k].pair : k \in DOMAIN opportunities } =
            { p \in (DOMAIN allPools) \X (DOMAIN allPools) :
                /\ p[1] < p[2]
                /\ allPools[p[1]].price # 0 /\ allPools[p[2]].price # 0
                /\ 2 * Abs(allPools[p[1]].price - allPools[p[2]].price) * 10000
                     >= (2 * minProfitBps - 1)
                          * Min(allPools[p[1]].price, allPools[p[2]].price) }

\* C18 witness: one fee tier threw, one has no pool, the third and the
\* SushiSwap pair were quoted, and an opportunity between them was returned.
C18_Witness ==
  /\ Reported
  /\ tierOutcome[1].kind = "threw"
  /\ tierOutcome[2].kind = "noPool"
  /\ tierOutcome[3].kind = "quoted"
  /\ sushi.outcome = "quoted"
  /\ Len(opportunities) = 1
  /\ opportunities[1].pair = <<1, 2>>

\* ------------------------------------------------ claims on the scan loop
\* the invocation that logged in this step stands where the loop goes next
ContinuesAfter(e) ==
  /\ scans[e.scan].pair = e.pair
  /\ IF e.pair < NumPairs
       THEN scans'[e.scan] = AtQuotes(e.pair + 1)
       ELSE scans'[e.scan].pc = "done" /\ scans'[e.scan].pair = NumPairs
  /\ \A i \in ScanIds \ {e.scan} : scans'[i] = scans[i]

\* C19: a step in which scanning or executing a pair throws logs the error
\* and leaves that invocation of scan awaiting the quotes of the next pair
\* (or at its end after the last pair), the other invocations untouched; the
\* timer, once set, stays set, and it is set once the first scan has ended,
\* whatever failed in it.
C19_Step ==
  /\ logged' # NoLog => ContinuesAfter(logged')
  /\ timerArmed => timerArmed'

C19_Inv ==
  /\ (scans # <<>> /\ scans[1].pc = "done") => timerArmed
  /\ \A i \in DOMAIN scans :
       scans[i].pc \notin {"unstarted", "done"} => scans[i].pair \in 1..NumPairs

C19_ErrorsNeverStopTheLoop == []C19_Inv /\ [][C19_Step]_vars

\* C19 witness: in a cycle started by the timer the submission for the second
\* pair failed, and the cycle awaits the quotes of the third pair.
C19_Witness ==
  /\ logged = [ scan |-> 2, pair |-> 2, kind |-> "executor", at |-> "wait" ]
  /\ scans[2] = AtQuotes(3)

\* C20: for the opportunity of one pair executor.execute makes at most one gas
\* estimate and at most one send, the send only after the estimate; when a
\* step of execute fails the caller logs it and is no longer inside execute
\* for that pair.
C20_Step ==
  (logged' # NoLog /\ logged'.kind = "executor") =>
    /\ logged'.at \in ExecutePcs
    /\ ~(scans'[logged'.scan].pair = logged'.pair
           /\ scans'[logged'.scan].pc \in ExecutePcs)

C20_Inv ==
  \A i \in DOMAIN scans :
    /\ scans[i].estimates <= 1
    /\ scans[i].sends <= 1
    /\ scans[i].pc \in ExecutePcs => scans[i].estimates = 1
    /\ scans[i].pc \in {"estimateGas", "getFeeData"} => scans[i].sends = 0
    /\ scans[i].pc \in {"send", "wait"} => scans[i].sends = 1
    /\ scans[i].pc \notin ExecutePcs => scans[i].estimates = 0 /\ scans[i].sends = 0

C20_NoAutomaticRetry == []C20_Inv /\ [][C20_Step]_vars

\* C20 witness: the send of executeArbitrage for the first pair failed, the
\* error was logged and the scan awaits the quotes of the second pair.
C20_Witness ==
  /\ logged = [ scan |-> 1, pair |-> 1, kind |-> "executor", at |-> "send" ]
  /\ scans[1] = AtQuotes(2)

\* ------------------------------------------- claims on the engine's events
EventsNamed(name) == { i \in DOMAIN events : events[i].name = name }

\* C25: the step that ends a settlement in success approves the pool for
\* exactly amountBorrowed + premium and appends one ArbExecuted(tokenBorrow,
\* amountBorrowed, profit) whose profit plus amountBorrowed + premium is the
\* engine's balance of the borrowed token read at the repayment check; the
\* log of a successful settlement holds exactly one ArbExecuted, and no other
\* transaction, a failed settlement included, leaves one.
C25_Step ==
  (phase = "RepaymentVerified" /\ phase' = "Settled") =>
    /\ Len(events') = Len(events) + 1
    /\ SubSeq(events', 1, Len(events)) = events
    /\ LET e == events'[Len(events')]
       IN /\ e.name = "ArbExecuted"
          /\ e.asset = frame.asset
          /\ e.amount = frame.amountBorrowed
          /\ e.profit + (frame.amountBorrowed + frame.premium) = balance[frame.asset]
          /\ balance[frame.asset] = frame.balanceRead
    /\ allowance'[frame.asset][Pool] = frame.amountBorrowed + frame.premium

C25_Inv ==
  /\ phase = "Settled" => Cardinality(EventsNamed("ArbExecuted")) = 1
  /\ phase # "Settled" => EventsNamed("ArbExecuted") = {}
  /\ phase = "Aborted" => events = <<>>

C25_OneArbExecutedPerSettlement == []C25_Inv /\ [][C25_Step]_vars

\* C25 witness: a settlement at its success end that reported a profit of 1
\* with a premium of 1, the second leg having returned just the debt.
C25_Witness ==
  /\ Running /\ phase = "Settled"
  /\ frame.premium = 1
  /\ events[Len(events)].name = "ArbExecuted"
  /\ events[Len(events)].profit = 1
  /\ frame.finalReceived = Owed

\* C26: when executeArbitrage hands over to POOL.flashLoan the log holds
\* FlashLoanInitiated(asset, amount) and no venue has been called; from then
\* on the transaction's log begins with that event and holds it exactly once,
\* so every swap of the settlement comes after it.
C26_Step ==
  (phase' = "Initiated" /\ phase # "Initiated") =>
    /\ events' = <<FlashLoanInitiated(frame'.asset, frame'.amountBorrowed)>>
    /\ venue' = 0
    /\ balance' = balance /\ allowance' = allowance

C26_Inv ==
  /\ (Running \/ phase = "Settled") =>
       /\ call[1] = "executeArbitrage"
       /\ Len(events) >= 1
       /\ events[1].name = "FlashLoanInitiated"
       /\ Cardinality(EventsNamed("FlashLoanInitiated")) = 1
  /\ Running =>
       /\ events[1].asset = frame.asset
       /\ events[1].amount = frame.amountBorrowed
  /\ (venue # 0 \/ phase \in PastLeg1) => EventsNamed("FlashLoanInitiated") = {1}

C26_InitiatedOnceBeforeAnySwap == []C26_Inv /\ [][C26_Step]_vars

\* C26 witness: the first venue call of a settlement is running and the log
\* holds FlashLoanInitiated and nothing else.
C26_Witness ==
  /\ Running /\ venue = 1 /\ phase = "Advanced"
  /\ events = <<FlashLoanInitiated(frame.asset, frame.amountBorrowed)>>

\* ------------------------------------------- claims on the pure functions
\* the 14 members in the order the claim lists them
PlanMembers ==
  << "dex1", "dex2", "tokenBorrow", "tokenIntermediate", "fee1", "fee2",
     "curvePool1", "curvePool2", "curveI1", "curveJ1", "curveI2", "curveJ2",
     "amountOutMin1", "amountOutMin2" >>
AddressMembers == {"tokenBorrow", "tokenIntermediate", "curvePool1", "curvePool2"}

\* word w carries the value of member `name` of the plan
Carries(w, name) ==
  IF name \in AddressMembers
    THEN w = [ pad |-> "zeros", low |-> fnParams[name].id ]
  ELSE IF fnParams[name] >= 0
    THEN w = [ pad |-> "zeros", low |-> fnParams[name] ]
  ELSE w.pad = "ones" /\ w.low - 2 ^ IntBits = fnParams[name]

\* C22: the bytes encodeArbParams returns are 14 words, word k carrying
\* member k of the plan in the order dex1 .. amountOutMin2, and the engine's
\* decoding of them gives, for each of the 14 members, the value the plan
\* had (an address as its 20 bytes), zero values included.
C22_EncodeDecodeRoundTrip ==
  /\ fnPc \in {"encoded", "decoded"} =>
       /\ Len(fnWords) = 14
       /\ \A k \in 1..14 : Carries(fnWords[k], PlanMembers[k])
  /\ fnPc = "decoded" =>
       /\ DOMAIN fnDecoded = { PlanMembers[k] : k \in 1..14 }
       /\ \A k \in 1..14 :
            LET name == PlanMembers[k]
            IN fnDecoded[name] = IF name \in AddressMembers
                                   THEN fnParams[name].id
                                   ELSE fnParams[name]

\* C22 witness: a decoded plan with two different fee tiers, unused curve
\* pools, a zero and a negative curve index and a zero minimum output.
C22_Witness ==
  /\ fnPc = "decoded"
  /\ fnParams.fee1 = 500 /\ fnParams.fee2 = 3000
  /\ fnParams.curvePool1 = ZeroAddr
  /\ fnParams.curveI1 = 0 /\ fnParams.curveJ1 < 0
  /\ fnParams.amountOutMin1 = 0
  /\ fnParams.tokenBorrow.form = "checksum"
  /\ fnDecoded.fee1 = 500 /\ fnDecoded.curveJ1 = fnParams.curveJ1

\* C24: the loan amount is the notional times 10^d, d being the decimals the
\* table holds for the address whatever its spelling (6 for USDC and USDT of
\* Ethereum, Polygon and Arbitrum, 18 for those of BNB Smart Chain and for
\* DAI and the wrapped native tokens), and 18 for an address the table does
\* not hold; a notional with more than d fractional digits is refused.
C24_LoanScaledByTokenDecimals ==
  fnPc = "computed" =>
    LET d == IF \E c \in {"ethereum", "polygon", "arbitrum"}, t \in {"usdc", "usdt"} :
                  fnAddress.id = c \o "." \o t
               THEN 6 ELSE 18
    IN IF fnUsd.frac <= d
         THEN /\ fnLoan.coef = fnUsd.coef
              /\ fnLoan.exp + fnUsd.frac = d
         ELSE fnLoan = ParseError

\* C24 witness: the borrowed token is absent from the table and a notional
\* of 0.5 became 5 * 10^17.
C24_Witness ==
  /\ fnPc = "computed"
  /\ fnAddress.id = "other"
  /\ fnUsd = [ coef |-> 5, frac |-> 1 ]
  /\ fnLoan = [ coef |-> 5, exp |-> 17 ]

\* ------------------------------------------------- claims on the planner
\* the positions in `requests` of the requests of one method
RequestsOf(method) == { k \in DOMAIN requests : requests[k].method = method }

\* C21: every executeArbitrage request comes after an estimateGas request
\* for the same asset, amount and bytes whose answer has arrived, and carries
\* the gas limit floor(estimate * 130 / 100); when no estimate has arrived,
\* no transaction has been sent.
C21_EstimatePrecedesSend ==
  /\ \A k \in RequestsOf("executeArbitrage") :
       /\ estimate > 0
       /\ \E j \in RequestsOf("estimateGas") :
            /\ j < k
            /\ requests[j].asset = requests[k].asset
            /\ requests[j].amount = requests[k].amount
            /\ requests[j].data = requests[k].data
       /\ 100 * requests[k].gasLimit <= 130 * estimate
       /\ 130 * estimate < 100 * (requests[k].gasLimit + 1)
  /\ estimate = 0 => RequestsOf("executeArbitrage") = {}
  /\ (planPc = "done" /\ planLogged = "executor" /\ estimate = 0) =>
       /\ RequestsOf("estimateGas") # {}
       /\ RequestsOf("executeArbitrage") = {}

\* C21 witness: an estimate of 3 has led to a transaction with gas limit 3
\* (3.9 rounded down).
C21_Witness ==
  /\ estimate = 3
  /\ planPc = "send"
  /\ requests[Len(requests)].method = "executeArbitrage"
  /\ requests[Len(requests)].gasLimit = 3

\* C23: in the plan built from the best opportunity, the engine's dispatch
\* on dex1 selects the venue type of the buy quote and on dex2 that of the
\* sell quote (code 1 for uniswapV3, 2 for sushiswap), and the fee of a
\* leg whose quote is a Uniswap V3 quote is the fee tier of that quote.
C23_VenueCodesAndFees ==
  arbParamsObj # NoParams =>
    LET best == opps[1]
    IN /\ VenueKind(arbParamsObj.dex1) = best.buy.source
       /\ VenueKind(arbParamsObj.dex2) = best.sell.source
       /\ (best.buy.source = "uniswapV3") = (arbParamsObj.dex1 = 1)
       /\ (best.buy.source = "sushiswap") = (arbParamsObj.dex1 = 2)
       /\ (best.sell.source = "uniswapV3") = (arbParamsObj.dex2 = 1)
       /\ (best.sell.source = "sushiswap") = (arbParamsObj.dex2 = 2)
       /\ best.buy.source = "uniswapV3" => arbParamsObj.fee1 = best.buy.fee
       /\ best.sell.source = "uniswapV3" => arbParamsObj.fee2 = best.sell.fee

\* C23 witness: a plan that buys on SushiSwap and sells on the 0.05% tier of
\* Uniswap V3.
C23_Witness ==
  /\ arbParamsObj # NoParams
  /\ opps[1].buy.source = "sushiswap"
  /\ opps[1].sell.source = "uniswapV3" /\ opps[1].sell.fee = 500
  /\ arbParamsObj.dex1 = 2 /\ arbParamsObj.dex2 = 1 /\ arbParamsObj.fee2 = 500

\* the iteration is over in live mode
LiveDone == planPc = "done" /\ env.TRADE_LIVE = "true"

\* C27 (as claimed): in live mode an iteration whose list of opportunities
\* is not empty ends with exactly one settlement submitted.
C27_ExactlyOneSubmission ==
  (LiveDone /\ opps # <<>>) => Cardinality(RequestsOf("executeArbitrage")) = 1

\* C27 (amended): in live mode an iteration submits at most one settlement,
\* and exactly one when the list is not empty and the loan amount, the gas
\* estimate and the fee data were obtained; the settlement borrows tokenA
\* and its bytes decode to the venue codes and fees of the first
\* opportunity, which has the highest profitBps of the list; an empty list
\* leads to no request at all.
C27_AtMostOneSubmissionFromBest ==
  /\ Cardinality(RequestsOf("executeArbitrage")) <= 1
  /\ LiveDone =>
       (RequestsOf("executeArbitrage") # {}) =
         (opps # <<>> /\ loanAmount # ParseError /\ estimate > 0
            /\ RequestsOf("getFeeData") # {}
            /\ requests[Len(requests)].method = "executeArbitrage")
  /\ \A k \in RequestsOf("executeArbitrage") :
       LET sent == AbiDecode(requests[k].data)
           best == opps[1]
       IN /\ opps # <<>>
          /\ \A n \in DOMAIN opps : best.profitBps >= opps[n].profitBps
          /\ requests[k].asset = pairTokens[1]
          /\ sent.tokenBorrow = pairTokens[1].id
          /\ sent.tokenIntermediate = pairTokens[2].id
          /\ VenueKind(sent.dex1) = best.buy.source
          /\ VenueKind(sent.dex2) = best.sell.source
          /\ best.buy.source = "uniswapV3" => sent.fee1 = best.buy.fee
          /\ best.sell.source = "uniswapV3" => sent.fee2 = best.sell.fee
  /\ (planPc # "quotes" /\ opps = <<>>) => requests = <<>>

\* C27 witness: two opportunities were found, the first with the higher
\* profit and another fee tier than the second, and one settlement has been
\* submitted and confirmed.
C27_Witness ==
  /\ LiveDone
  /\ planLogged = "none"
  /\ Len(opps) = 2
  /\ opps[1].profitBps > opps[2].profitBps
  /\ opps[1].buy.source = "uniswapV3" /\ opps[2].buy.source = "uniswapV3"
  /\ opps[1].buy.fee # opps[2].buy.fee
  /\ Cardinality(RequestsOf("executeArbitrage")) = 1

\* C28: unless TRADE_LIVE is the string 'true' there is no ArbExecutor, no
\* plan is built and no request (gas estimate or transaction) is made,
\* whatever opportunities are found.
C28_NoSubmissionUnlessLive ==
  env.TRADE_LIVE # "true" =>
    /\ executor = "null"
    /\ arbParamsObj = NoParams
    /\ requests = <<>>
    /\ planPc \in {"quotes", "done"}

\* C28 witness: TRADE_LIVE is 'TRUE', opportunities were found and the
\* iteration has ended.
C28_Witness ==
  /\ env.TRADE_LIVE = "TRUE"
  /\ planPc = "done"
  /\ Len(opps) >= 2
  /\ requests = <<>>

\* C29 (as claimed): on Ethereum every settlement transaction goes through
\* the Flashbots relay.
C29_EthereumThroughFlashbots ==
  env.CHAIN = "ethereum" =>
    \A k \in RequestsOf("executeArbitrage") : requests[k].via = "flashbots"

\* ---------------------------------------------------- claims on the relay
\* C30: a call of sendBundle or simulate posts one request to the relay; once
\* the call is over, it has returned the response when the status of the
\* response is a success status; when the status is not, it has thrown an
\* error with that status and returned nothing; every request of simulate
\* names eth_callBundle and none names eth_sendBundle.
\* Violated by a response of status 204, which has no body: response.json()
\* throws a SyntaxError and the call returns nothing.  A call whose signer
\* rejects also ends having posted no request.
C30_OneRequestStatusDecides ==
  /\ Len(relayRequests) <= 1
  /\ relayPc \in {"fetching", "reading", "done"} => Len(relayRequests) = 1
  /\ (relayPc = "done" /\ relayResponse # NoResponse) =>
       IF relayResponse.status >= 200 /\ relayResponse.status <= 299
         THEN /\ relayResult.kind = "returned"
              /\ relayResult.value = relayResponse.body
         ELSE /\ relayResult.kind = "threw"
              /\ relayResult.status = relayResponse.status
              /\ relayResult.value = "none"
  /\ relayResult.kind = "returned" => relayResponse.status \in 200..299
  /\ relayCall.fn = "simulate" =>
       \A k \in DOMAIN relayRequests :
         /\ relayRequests[k].method = "eth_callBundle"
         /\ relayRequests[k].method # "eth_sendBundle"

\* ------------------------------------------ claims on the reentrancy lock
\* C33: whenever no call into the engine is running, a settlement having
\* ended in success or a call having reverted at any step, the guard's
\* status is NOT_ENTERED; so no top-level executeArbitrage call is ever
\* rejected by the guard, and the owner's next call with a non-zero amount
\* is accepted.
C33_Inv ==
  /\ ~Running => status = NOT_ENTERED
  /\ ~Running => nonReentrant(status)
  /\ (phase = "Aborted" /\ call[1] = "executeArbitrage") =>
       ErrorName # "ReentrancyGuardReentrantCall"

C33_Step ==
  (~Running /\ calls' = calls + 1 /\ call' = <<"executeArbitrage", Owner, ZeroAddress>>
     /\ phase' = "Aborted") => reason' = <<"InvalidAmount">>

C33_LockAlwaysReleased == []C33_Inv /\ [][C33_Step]_vars

\* C33 witness: after a first transaction that settled and left a profit,
\* the owner's second executeArbitrage call has been accepted.
C33_Witness ==
  /\ calls = 2
  /\ Running /\ phase = "Initiated" /\ status = ENTERED
  /\ pre.status = NOT_ENTERED
  /\ pre.balance["tokenA"] > 0

\* ------------------------------------------ claims on the plan's direction
\* the quote of the opportunity that a leg of the plan trades on: the one of
\* the leg's venue type and, on Uniswap V3, of the leg's fee tier
LegQuote(best, leg) ==
  CHOOSE q \in {best.buy, best.sell} :
    /\ DexCode(q.source) = leg.dex
    /\ q.source = "uniswapV3" => q.fee = leg.fee

\* a fee-free venue trading exactly at its quoted price, tokenB per tokenA
\* in units of PriceBase: the output of selling amountIn of tokenIn
QuotedOut(quote, tokenIn, tokenA, amountIn) ==
  IF tokenIn = tokenA THEN (amountIn * quote.price) \div PriceBase
                      ELSE (amountIn * PriceBase) \div quote.price

\* what the two legs of the stored plan return for a loan of `borrowed`
PlanReturn(borrowed) ==
  LET best == Best(opps)
      leg1 == PlanLeg(arbParamsObj, 1)
      leg2 == PlanLeg(arbParamsObj, 2)
      mid  == QuotedOut(LegQuote(best, leg1), leg1.tokenIn, pairTokens[1], borrowed)
  IN QuotedOut(LegQuote(best, leg2), leg2.tokenIn, pairTokens[1], mid)

\* C31: once the scan loop has built a plan, trading its two legs at the
\* quoted prices of the venues it names returns at least the amount of
\* tokenA borrowed.
C31_PlanReturnsBorrowed ==
  arbParamsObj # NoParams => PlanReturn(PriceBase) >= PriceBase

\* ------------------------------------- claims on the order of completion
\* an opportunity as the caller sees it, without the loop indexes
Returned(list) ==
  [ k \in DOMAIN list |->
      [ buy |-> list[k].buy, sell |-> list[k].sell, spread |-> list[k].spread,
        profitBps |-> list[k].profitBps ] ]

\* the quotes gathered when the fee-tier queries complete in the order of
\* feeTiers: the same quotes, the Uniswap V3 ones by ascending tier index
RECURSIVE InTierOrder(_, _)
InTierOrder(pools, t) ==
  IF t > Len(FeeTiers) THEN SelectSeq(pools, LAMBDA q : q.source # "uniswapV3")
  ELSE SelectSeq(pools, LAMBDA q : q.source = "uniswapV3" /\ q.fee = FeeTiers[t])
         \o InTierOrder(pools, t + 1)

\* C32: the list findArbitrageOpportunities returns is the one it returns
\* for the same answers of the venues when the queries complete in the order
\* they were started, whatever order they did complete in.
C32_SameListInAnyCompletionOrder ==
  findPc = "returned" =>
    Returned(opportunities) = Returned(MatchQuotes(InTierOrder(allPools, 1), minProfitBps))

\* ----------------------------------------------------- claims on startup
\* the configurations the process must not run in; a CHAIN that is unset or
\* empty names nothing and stands for the default chain
FailsClosed(e) ==
  \/ e.TRADE_LIVE = "true" /\ (~e.PRIVATE_KEY \/ ~e.ARB_CONTRACT_ADDRESS)
  \/ e.CHAIN \notin {"unset", ""} \cup ChainNames

\* C34: when TRADE_LIVE is 'true' and PRIVATE_KEY or ARB_CONTRACT_ADDRESS is
\* unset, or CHAIN names no configured chain, the process never gets past
\* startup: it has exited or not yet run, no venue has been queried, no plan
\* built and no request made, and neither the executor nor the Flashbots
\* provider exists. Violated by CHAIN = constructor, or any other name of
\* ObjectPrototypeNames, with the variable called undefined set: the lookup
\* of line 14 finds the inherited member, the process does not exit and scans
\* pairs of undefined tokens.
C34_Inv ==
  FailsClosed(env) =>
    /\ planPc \in {"startup", "exited"}
    /\ opps = <<>> /\ arbParamsObj = NoParams /\ requests = <<>>
    /\ executor = "null" /\ flashbots = "null"

C34_Step ==
  /\ (planPc = "startup" /\ FailsClosed(env)) => planPc' = "exited"
  /\ planPc = "exited" => UNCHANGED <<planPc, opps, arbParamsObj, requests, executor>>

C34_StartupFailsClosed == []C34_Inv /\ [][C34_Step]_vars

\* ------------------------------------------------- claims on the routers
\* the call into one of the owner's functions a step makes, if it makes one:
\* a transaction sent to the engine, or a call by a running venue
OwnerCallMade ==
  IF calls' = calls + 1 THEN call'
  ELSE IF inner'.calls = inner.calls + 1 THEN inner'.call
  ELSE NoCall

\* a step that reverts a running transaction
Reverts == Running /\ phase' = "Aborted"

\* C35: once the engine is deployed both routers are non-zero; a step
\* changes a router only in the constructor, or in that router's setter called
\* by the owner of the moment, to the non-zero address passed and with
\* RouterUpdated logged, be the setter called in a transaction of its own or
\* by a venue during a settlement, or in the revert of a transaction, which
\* puts back the router the transaction began with; a setter called by the
\* owner with the zero address is rejected (with ZeroAddress) and a setter
\* called by any other account is rejected, both routers and the log left
\* as they were, and a rejected constructor leaves no contract.
C35_Inv ==
  deployed => (uniswapV3Router # ZeroAddress /\ sushiswapRouter # ZeroAddress)

C35_Step ==
  /\ uniswapV3Router' # uniswapV3Router =>
       \/ call' = <<"constructor", Owner, ZeroAddress>> /\ ~deployed /\ deployed'
       \/ /\ OwnerCallMade = <<"setUniswapV3Router", owner, uniswapV3Router'>>
          /\ events' = (IF Running THEN events ELSE <<>>)
                         \o <<RouterUpdated("UniswapV3", uniswapV3Router')>>
       \/ Reverts /\ uniswapV3Router' = pre.uniswapV3Router
  /\ sushiswapRouter' # sushiswapRouter =>
       \/ call' = <<"constructor", Owner, ZeroAddress>> /\ ~deployed /\ deployed'
       \/ /\ OwnerCallMade = <<"setSushiswapRouter", owner, sushiswapRouter'>>
          /\ events' = (IF Running THEN events ELSE <<>>)
                         \o <<RouterUpdated("Sushiswap", sushiswapRouter')>>
       \/ Reverts /\ sushiswapRouter' = pre.sushiswapRouter
  /\ (/\ OwnerCallMade[1] \in {"setUniswapV3Router", "setSushiswapRouter"}
      /\ OwnerCallMade[2] # owner \/ OwnerCallMade[3] = ZeroAddress) =>
       /\ IF Running
            THEN nested' = "rejected" /\ events' = events
            ELSE /\ reason' = IF OwnerCallMade[2] # owner
                                THEN <<"OwnableUnauthorizedAccount">>
                                ELSE <<"ZeroAddress">>
                 /\ events' = <<>>
       /\ UNCHANGED <<uniswapV3Router, sushiswapRouter>>
  /\ (call' # call /\ call'[1] = "constructor" /\ ~deployed') =>
       reason' = <<"ZeroAddress">>
  /\ (OwnerCallMade # NoCall /\ OwnerCallMade[2] # owner) =>
       UNCHANGED <<uniswapV3Router, sushiswapRouter>>

C35_RoutersNonZeroOwnerSet == []C35_Inv /\ [][C35_Step]_vars

\* C35 witness: of two transactions the first was a settlement, during which
\* the owner was called by the venue of a leg and replaced the Uniswap V3
\* router, and the second a call of the owner to the SushiSwap setter with
\* the zero address, which was rejected.
C35_Witness ==
  /\ deployed /\ calls = 2
  /\ inner.calls = 1
  /\ uniswapV3Router = NewRouter /\ sushiswapRouter = SushiRouter
  /\ call = <<"setSushiswapRouter", Owner, ZeroAddress>>
  /\ reason = <<"ZeroAddress">>

\* ------------------------------------------- claims on the retained profit
\* what the accounts have received of a token since the transaction began
Received(t) ==
  (held[Owner][t] - pre.held[Owner][t]) + (held[Stranger][t] - pre.held[Stranger][t])

\* C36 (as claimed): retained profit leaves the engine only to the owner:
\* no transaction ends with the engine holding less of a token than it held
\* when the transaction began, but for what withdrawToken has paid out in it,
\* called in that transaction or by a venue during its settlement.
C36_RetainedProfitOnlyToOwner ==
  ~Running => \A t \in Tokens : balance[t] + Received(t) >= pre.balance[t]

\* The parts of C36 on the owner's functions, which hold under SpecAdmin:
\* withdrawToken called by the owner of the moment, in a transaction or by a
\* venue during a settlement, moves the whole balance of the token to the
\* owner and logs ProfitWithdrawn(token, that balance) and nothing else;
\* with a zero balance it reverts with InvalidAmount, called by another
\* account with OwnableUnauthorizedAccount, both leaving balances, storage
\* and log untouched; an account's balance grows in no other step, and
\* shrinks only in the revert of the transaction that made it grow; an
\* executeArbitrage call by the owner that is rejected at once is rejected
\* with InvalidAmount, logs nothing and starts no loan.
C36_OwnerFunctionsStep ==
  /\ OwnerCallMade[1] = "withdrawToken" =>
       LET t == OwnerCallMade[3]
       IN IF OwnerCallMade[2] = owner /\ balance[t] > 0
            THEN /\ balance' = [balance EXCEPT ![t] = 0]
                 /\ held' = [held EXCEPT ![owner][t] = @ + balance[t]]
                 /\ events' = (IF Running THEN events ELSE <<>>)
                                \o <<ProfitWithdrawn(t, balance[t])>>
                 /\ ~Running => reason' = <<>>
                 /\ UNCHANGED <<allowance, uniswapV3Router, sushiswapRouter, owner, status>>
            ELSE /\ IF Running
                      THEN nested' = "rejected" /\ events' = events
                      ELSE /\ reason' = IF OwnerCallMade[2] = owner
                                          THEN <<"InvalidAmount">>
                                          ELSE <<"OwnableUnauthorizedAccount">>
                           /\ events' = <<>>
                 /\ UNCHANGED <<balance, allowance, storageVars, status>>
  /\ (calls' = calls + 1 /\ call' = <<"executeArbitrage", owner, ZeroAddress>>
        /\ phase' = "Aborted") =>
       /\ reason' = <<"InvalidAmount">> /\ events' = <<>> /\ frame' = NoFrame
       /\ UNCHANGED <<balance, allowance, storageVars, status>>
  /\ \A a \in Accounts, t \in Tokens :
       held'[a][t] # held[a][t] =>
         \/ /\ OwnerCallMade = <<"withdrawToken", owner, t>>
            /\ a = owner /\ held'[a][t] > held[a][t]
         \/ Reverts /\ held' = pre.held

C36_OwnerFunctions == [][C36_OwnerFunctionsStep]_vars

\* states of the above: the owner has withdrawn the profit a settlement
\* left, and a second withdrawal has been rejected for the empty balance;
\* the owner, called by the venue of the second leg, has withdrawn what the
\* first leg returned, in a settlement that has not ended
C36_OwnerFunctionsReached ==
  /\ held[Owner]["tokenA"] > 0 /\ balance["tokenA"] = 0
  /\ call = <<"withdrawToken", Owner, "tokenA">>
  /\ reason = <<"InvalidAmount">> /\ events = <<>>

C36_WithdrawnDuringSettlement ==
  /\ Running /\ venue = 2 /\ nested = "returned"
  /\ inner = [ calls |-> 1, call |-> <<"withdrawToken", Owner, "tokenB">> ]
  /\ held[Owner]["tokenB"] > 0 /\ balance["tokenB"] = 0

====
